---- MODULE Spec2Model ----
(***************************************************************************)
(* Model of the monster-stan grounded-generation orchestrator and of the   *)
(* onboarding pipeline that feeds it.                                      *)
(*                                                                         *)
(* The specifications of the module:                                       *)
(*   Spec            one chat turn: the respond route handler and          *)
(*                   orchestrateResponse (classify, retrieve, load         *)
(*                   profile, generate, validate, rewrite, save).          *)
(*   SpecRespond     the same turn, started in any onboarding status.      *)
(*   SpecOnboarding  the LinkedIn-URL endpoint and the background          *)
(*                   ingestion / analysis runs it starts, for one user.    *)
(*                   SpecOnboardingFair adds that every call returns.      *)
(*   SpecPoll        one call of waitForRunCompletion.                     *)
(*   SpecScores      one call of updateEngagementScores.                   *)
(*   SpecSelect      one call of selectCandidatePosts.                     *)
(*   SpecStyle       steps 3 to 6 of one analyzeUserData run.              *)
(*   SpecRetrieval   one call of retrieveRelevantPosts.                    *)
(*   SpecMemory      upsertMemory calls for one user and summary type.     *)
(*   SpecChatlog     the messages of one chat and the windows a turn       *)
(*                   reads from them.                                      *)
(*   SpecClean       one call of cleanLinkedInPostText, and a second one   *)
(*                   over its result.                                      *)
(*   SpecFacts       one call of buildFactsBlock.                          *)
(* External collaborators (completion service, embedding service, the     *)
(* scraping jobs, the database) answer nondeterministically from small     *)
(* sets: a result, an empty result, or a thrown error.                     *)
(***************************************************************************)
EXTENDS Integers, Sequences, FiniteSets, TLC

VARIABLES
    \* ---- one chat turn ----
    pc,                 \* position of the turn
    req,                \* the request: authed, owner, userMessage
    classifierContent,  \* what the classifier model answered
    classification,     \* the IntentClassification classifyIntent returned
    ragPosts,           \* number of posts retrieval handed to the orchestrator
    retrievalThrew,     \* retrieveRelevantPosts threw in this turn
    profile,            \* "unloaded" | "null" | "row"
    generatedText,      \* the draft / final text held by the generate function
    validatorContent,   \* what the validator model answered
    validation,         \* what validateAgainstFacts returned
    calls,              \* the external calls the turn has issued, in order
    result,             \* the HTTP response of the turn
    saved,              \* assistant messages stored by this turn
    \* ---- onboarding ----
    onboarding_status,  \* user_profile.onboarding_status
    linkedin_url,       \* user_profile.linkedin_url
    post,               \* the URL-submission request being handled
    runs,               \* background pipelines started so far
    store,              \* rows of linkedin_profiles and linkedin_posts of the user
    \* ---- one call of waitForRunCompletion ----
    poll,               \* position, clock and last status of the poll loop
    \* ---- one call of updateEngagementScores ----
    scored,             \* the posts handed in and the rows after the updates
    \* ---- one call of selectCandidatePosts ----
    selected,           \* the posts handed in and the candidates returned
    \* ---- one analyzeUserData run, steps 3 to 6 ----
    styleRun,           \* the style extraction, its storage and the ready write
    \* ---- one call of retrieveRelevantPosts ----
    retrieval,          \* the query, the stored embeddings and the posts returned
    \* ---- calls of upsertMemory for one user and one summary type ----
    memory,             \* the rows of long_term_memory and the calls in flight
    \* ---- the messages of one chat ----
    chatlog,            \* the rows of chat_messages and the windows read from them
    \* ---- one call of cleanLinkedInPostText ----
    cleaned,            \* the raw text and what cleaning made of it
    \* ---- one call of buildFactsBlock ----
    factsBlock          \* the context handed in and the block built from it

turnVars == <<pc, req, classifierContent, classification, ragPosts, retrievalThrew,
              profile, generatedText, validatorContent, validation, calls, result, saved>>

onbVars == <<onboarding_status, linkedin_url, post, runs, store>>

pipelineFnVars == <<poll, scored, selected, styleRun>>

serviceFnVars == <<retrieval, memory, chatlog, cleaned, factsBlock>>

fnVars == <<pipelineFnVars, serviceFnVars>>

vars == <<pc, req, classifierContent, classification, ragPosts, retrievalThrew,
          profile, generatedText, validatorContent, validation, calls, result, saved,
          onboarding_status, linkedin_url, post, runs, store,
          poll, scored, selected, styleRun,
          retrieval, memory, chatlog, cleaned, factsBlock>>

(***************************************************************************)
(* Bounds of the model                                                     *)
(***************************************************************************)
\* how many unsupported claims a validator answer may list
MaxClaims == 2

\* how many posts with embeddings the user has stored
MaxStoredPosts == 2

\* how many onboarding pipelines one behaviour starts
MaxRuns == 2

\* how many posts one posts-scrape dataset holds
MaxScraped == 1

(***************************************************************************)
(* The chat turn                                                           *)
(***************************************************************************)
Intents == {"WRITE_POST", "ANALYZE_PROFILE", "STRATEGY", "OTHER"}

\* what the classifier model may name: the closed set, a fifth intent, or none
ModelIntents == Intents \cup {"CHAT", "undefined"}

\* user messages: empty, whitespace only, without and with sensitive keywords
UserMessages == {"", " ", "write a post on ai", "a post about my career journey"}

TopK == 5

NoText == "none"

\* texts a generation call may produce: without and with 'worked'/'years of'
DraftTexts == {"plain draft", "draft: worked 10 years of"}

ClarifyFallback == "Could you provide more details about what you'd like to write about?"

GenerateFallback == "I apologize, but I couldn't generate a response. Please try again."

RewrittenText == "rewritten draft"

NoClassification ==
    [intent |-> "none", needs_clarification |-> FALSE, requires_rag |-> FALSE]

NoValidation == [isValid |-> "none", unsupportedClaims |-> <<>>]

NoContent == [kind |-> "none"]

NoResult == [kind |-> "none"]

\* how many calls of one kind the turn has issued
Count(k) == Cardinality({i \in DOMAIN calls : calls[i] = k})

GenerationKinds == {"clarify", "draft", "analysis", "strategy", "other"}

\* calls to the completion service: everything but the retrieval call
CompletionCalls == Cardinality({i \in DOMAIN calls : calls[i] # "retrieve"})

GenerationCalls == Cardinality({i \in DOMAIN calls : calls[i] \in GenerationKinds})

\* answers of the completion service to the classification call
ClassifierResponses ==
    {[kind |-> "throw"], [kind |-> "empty"], [kind |-> "garbage"]}
    \cup [kind : {"json"}, intent : ModelIntents,
          needs_clarification : BOOLEAN, requires_rag : BOOLEAN]

\* mutant: an intent outside the closed set is degraded to OTHER
classifyIntentCoerces(r) ==
    IF r.kind \in {"throw", "empty", "garbage"} THEN [ok |-> FALSE]
    ELSE [ok |-> TRUE,
          value |-> [intent |-> IF r.intent \in Intents THEN r.intent ELSE "OTHER",
                     needs_clarification |-> r.needs_clarification,
                     requires_rag |-> r.requires_rag]]

\* classifyIntent: the classification, or a thrown error
classifyIntent(r) ==
    IF r.kind = "throw" THEN [ok |-> FALSE]
    ELSE IF r.kind = "empty" THEN [ok |-> FALSE]
    ELSE IF r.kind = "garbage" THEN [ok |-> FALSE]
    ELSE IF r.intent \notin Intents THEN [ok |-> FALSE]
    ELSE [ok |-> TRUE,
          value |-> [intent |-> r.intent,
                     needs_clarification |-> r.needs_clarification,
                     requires_rag |-> r.requires_rag]]

\* the catch block of the respond route
RouteError(status) == [kind |-> "error", status |-> status]

\* orchestrateResponse step 2 guard
NeedsRetrieval(c) == c.requires_rag

\* orchestrateResponse step 3 guard
NeedsProfile(c) == c.intent \in {"ANALYZE_PROFILE", "WRITE_POST"}

\* the keyword heuristic of generateWritePostResponse
MessageKeywords(m) == m = "a post about my career journey"

TextKeywords(t) == t = "draft: worked 10 years of"

isSensitiveContent(m, t) == MessageKeywords(m) \/ TextKeywords(t)

\* mutant: the needs_clarification branch is skipped
GenerationKindNoClarify(c) ==
    IF c.intent = "WRITE_POST" THEN "draft"
    ELSE IF c.intent = "ANALYZE_PROFILE" THEN "analysis"
    ELSE IF c.intent = "STRATEGY" THEN "strategy"
    ELSE "other"

\* which first-pass generation a classification selects
GenerationKind(c) ==
    IF c.intent = "WRITE_POST" /\ c.needs_clarification THEN "clarify"
    ELSE IF c.intent = "WRITE_POST" THEN "draft"
    ELSE IF c.intent = "ANALYZE_PROFILE" THEN "analysis"
    ELSE IF c.intent = "STRATEGY" THEN "strategy"
    ELSE "other"

\* mutant: profile analysis is validated only when the keyword heuristic fires
RunsValidatorHeuristicOnly(c, m, t) ==
    GenerationKind(c) \in {"draft", "analysis"} /\ isSensitiveContent(m, t)

\* whether the generate function passes its text to validateAgainstFacts
RunsValidator(c, m, t) ==
    CASE GenerationKind(c) = "draft" -> isSensitiveContent(m, t)
      [] GenerationKind(c) = "analysis" -> TRUE
      [] OTHER -> FALSE


\* answers of the completion service to a generation or rewrite call
GenerationResponses ==
    {[kind |-> "throw"], [kind |-> "empty"]} \cup [kind : {"text"}, text : DraftTexts]

\* the `|| '...'` default of each generate function
Fallback(kind) == IF kind = "clarify" THEN ClarifyFallback ELSE GenerateFallback

ClaimList(n) == [i \in 1..n |-> "unsupported claim"]

\* answers of the completion service to the validation call
ValidatorResponses ==
    {[kind |-> "throw"], [kind |-> "empty"], [kind |-> "garbage"], [kind |-> "jsonnull"]}
    \cup [kind : {"json"}, hasClaims : {TRUE},
          unsupportedClaims : {ClaimList(n) : n \in 0..MaxClaims},
          allSupported : {"true", "false", "undefined"}]
    \cup [kind : {"json"}, hasClaims : {FALSE}, unsupportedClaims : {<<>>},
          allSupported : {"true", "false", "undefined"}]

\* mutant: an answer that cannot be read counts as a clean validation
validateAgainstFactsLenient(r) ==
    IF r.kind \in {"empty", "garbage", "jsonnull"}
    THEN [isValid |-> "true", unsupportedClaims |-> <<>>]
    ELSE [isValid |-> r.allSupported,
          unsupportedClaims |-> IF r.hasClaims THEN r.unsupportedClaims ELSE <<>>]

\* validateAgainstFacts, after the completion call has returned
validateAgainstFacts(r) ==
    IF r.kind = "empty"
    THEN [isValid |-> "false", unsupportedClaims |-> <<"Unable to validate">>]
    ELSE IF r.kind \in {"garbage", "jsonnull"}
    THEN [isValid |-> "false", unsupportedClaims |-> <<"Validation failed">>]
    ELSE [isValid |-> r.allSupported,
          unsupportedClaims |-> IF r.hasClaims THEN r.unsupportedClaims ELSE <<>>]

\* the caller's test `!validation.isValid && validation.unsupportedClaims.length > 0`
ShouldRewrite(v) == v.isValid # "true" /\ Len(v.unsupportedClaims) > 0

\* mutant: the rewritten text is validated again
AfterRewriteRevalidates == "validate"

\* where a generate function goes once the rewrite call has answered
AfterRewrite == "return"

\* mutant: the retrieval call is not wrapped in try/catch
OnRetrievalThrowPropagates == "propagate"

\* what the orchestrator does when retrieveRelevantPosts throws
OnRetrievalThrow == "continue"

Min(a, b) == IF a < b THEN a ELSE b

\* results of retrieveRelevantPosts: a throw, or at most topK of the stored posts
RetrievalOutcomes(m) ==
    IF m \in {"", " "} THEN {[kind |-> "posts", n |-> 0]}
    ELSE {[kind |-> "throw"]}
         \cup [kind : {"posts"}, n : 0..Min(TopK, MaxStoredPosts)]

TurnInit ==
    /\ pc = "idle"
    /\ req = [authed |-> FALSE, owner |-> FALSE, userMessage |-> ""]
    /\ classifierContent = NoContent
    /\ classification = NoClassification
    /\ ragPosts = 0
    /\ retrievalThrew = FALSE
    /\ profile = "unloaded"
    /\ generatedText = NoText
    /\ validatorContent = NoContent
    /\ validation = NoValidation
    /\ calls = <<>>
    /\ result = NoResult
    /\ saved = 0

\* a thrown error reaches the catch block of the route: HTTP 500
Abort ==
    /\ pc' = "done"
    /\ result' = RouteError(500)

\* POST respond: auth, chat ownership and body checks
Request ==
    /\ pc = "idle"
    /\ \E a \in BOOLEAN, o \in BOOLEAN, m \in UserMessages :
          /\ req' = [authed |-> a, owner |-> o, userMessage |-> m]
          /\ IF ~a THEN pc' = "done" /\ result' = RouteError(401)
             ELSE IF ~o THEN pc' = "done" /\ result' = RouteError(404)
             ELSE IF m = "" THEN pc' = "done" /\ result' = RouteError(400)
             ELSE pc' = "load" /\ result' = result
    /\ UNCHANGED <<classifierContent, classification, ragPosts, retrievalThrew, profile,
                   generatedText, validatorContent, validation, calls, saved>>
    /\ UNCHANGED <<onbVars, fnVars>>

\* POST respond: chat history, style profile and memory are read
LoadContext ==
    /\ pc = "load"
    /\ \E ok \in BOOLEAN :
          IF ok THEN pc' = "classify" /\ result' = result ELSE Abort
    /\ UNCHANGED <<req, classifierContent, classification, ragPosts, retrievalThrew,
                   profile, generatedText, validatorContent, validation, calls, saved>>
    /\ UNCHANGED <<onbVars, fnVars>>

\* orchestrateResponse step 1
Classify ==
    /\ pc = "classify"
    /\ \E r \in ClassifierResponses :
          /\ classifierContent' = r
          /\ calls' = Append(calls, "classify")
          /\ IF classifyIntent(r).ok
             THEN /\ classification' = classifyIntent(r).value
                  /\ pc' = "retrieve"
                  /\ result' = result
             ELSE /\ classification' = classification
                  /\ Abort
    /\ UNCHANGED <<req, ragPosts, retrievalThrew, profile, generatedText,
                   validatorContent, validation, saved>>
    /\ UNCHANGED <<onbVars, fnVars>>

\* orchestrateResponse step 2
Retrieve ==
    /\ pc = "retrieve"
    /\ IF NeedsRetrieval(classification)
       THEN \E out \in RetrievalOutcomes(req.userMessage) :
               /\ calls' = Append(calls, "retrieve")
               /\ retrievalThrew' = (out.kind = "throw")
               /\ IF out.kind = "throw"
                  THEN /\ ragPosts' = 0
                       /\ IF OnRetrievalThrow = "continue"
                          THEN pc' = "profile" /\ result' = result
                          ELSE Abort
                  ELSE /\ ragPosts' = out.n
                       /\ pc' = "profile"
                       /\ result' = result
       ELSE /\ pc' = "profile"
            /\ UNCHANGED <<calls, retrievalThrew, ragPosts, result>>
    /\ UNCHANGED <<req, classifierContent, classification, profile, generatedText,
                   validatorContent, validation, saved>>
    /\ UNCHANGED <<onbVars, fnVars>>

\* orchestrateResponse step 3: a failed read leaves the profile null
LoadProfile ==
    /\ pc = "profile"
    /\ IF NeedsProfile(classification)
       THEN profile' \in {"null", "row"}
       ELSE profile' = "null"
    /\ pc' = "generate"
    /\ UNCHANGED <<req, classifierContent, classification, ragPosts, retrievalThrew,
                   generatedText, validatorContent, validation, calls, result, saved>>
    /\ UNCHANGED <<onbVars, fnVars>>

\* orchestrateResponse step 4: the first completion call of the generate function
Generate ==
    /\ pc = "generate"
    /\ \E g \in GenerationResponses :
          /\ calls' = Append(calls, GenerationKind(classification))
          /\ IF g.kind = "throw"
             THEN generatedText' = generatedText /\ Abort
             ELSE /\ generatedText' =
                        IF g.kind = "empty"
                        THEN Fallback(GenerationKind(classification))
                        ELSE g.text
                  /\ pc' = IF RunsValidator(classification, req.userMessage, generatedText')
                           THEN "validate" ELSE "return"
                  /\ result' = result
    /\ UNCHANGED <<req, classifierContent, classification, ragPosts, retrievalThrew,
                   profile, validatorContent, validation, saved>>
    /\ UNCHANGED <<onbVars, fnVars>>

\* the two-pass validation: validateAgainstFacts on the draft
Validate ==
    /\ pc = "validate"
    /\ \E v \in ValidatorResponses :
          /\ validatorContent' = v
          /\ calls' = Append(calls, "validate")
          /\ IF v.kind = "throw"
             THEN validation' = validation /\ Abort
             ELSE /\ validation' = validateAgainstFacts(v)
                  /\ pc' = IF ShouldRewrite(validation') THEN "rewrite" ELSE "return"
                  /\ result' = result
    /\ UNCHANGED <<req, classifierContent, classification, ragPosts, retrievalThrew,
                   profile, generatedText, saved>>
    /\ UNCHANGED <<onbVars, fnVars>>

\* the regeneration call; an empty answer keeps the draft
Rewrite ==
    /\ pc = "rewrite"
    /\ \E g \in {[kind |-> "throw"], [kind |-> "empty"], [kind |-> "text"]} :
          /\ calls' = Append(calls, "rewrite")
          /\ IF g.kind = "throw"
             THEN generatedText' = generatedText /\ Abort
             ELSE /\ generatedText' =
                        IF g.kind = "empty" THEN generatedText ELSE RewrittenText
                  /\ pc' = AfterRewrite
                  /\ result' = result
    /\ UNCHANGED <<req, classifierContent, classification, ragPosts, retrievalThrew,
                   profile, validatorContent, validation, saved>>
    /\ UNCHANGED <<onbVars, fnVars>>

\* orchestrateResponse returns; the route stores and returns the assistant message
Return ==
    /\ pc = "return"
    /\ \E ok \in BOOLEAN :
          IF ok
          THEN /\ saved' = saved + 1
               /\ pc' = "done"
               /\ result' = [kind |-> "message",
                             role |-> "assistant",
                             text |-> generatedText,
                             intent |-> classification.intent,
                             metadata |->
                                [needs_clarification |-> classification.needs_clarification,
                                 requires_rag |-> classification.requires_rag,
                                 rag_posts_count |-> ragPosts]]
          ELSE saved' = saved /\ Abort
    /\ UNCHANGED <<req, classifierContent, classification, ragPosts, retrievalThrew,
                   profile, generatedText, validatorContent, validation, calls>>
    /\ UNCHANGED <<onbVars, fnVars>>

Next ==
    \/ Request
    \/ LoadContext
    \/ Classify
    \/ Retrieve
    \/ LoadProfile
    \/ Generate
    \/ Validate
    \/ Rewrite
    \/ Return

(***************************************************************************)
(* Onboarding: the LinkedIn-URL endpoint, ingestion and analysis           *)
(***************************************************************************)
Statuses ==
    {"linkedin_url_pending", "scraping_in_progress", "analysis_in_progress",
     "ready", "error"}

\* submitted URLs, by the parts the endpoint's pattern looks at
Urls ==
    {[scheme |-> "https", host |-> "www.linkedin.com", section |-> "in", handle |-> "jane-doe"],
     [scheme |-> "http", host |-> "linkedin.com", section |-> "in", handle |-> "jane_doe"],
     [scheme |-> "https", host |-> "linkedin.com", section |-> "company", handle |-> "acme"],
     [scheme |-> "https", host |-> "example.com", section |-> "in", handle |-> "jane-doe"],
     [scheme |-> "", host |-> "", section |-> "", handle |-> ""]}

NoUrl == [scheme |-> "null", host |-> "null", section |-> "null", handle |-> "null"]

\* `!linkedinUrl`: the body carries no URL
IsMissing(u) == u.scheme = "" /\ u.host = "" /\ u.section = "" /\ u.handle = ""

\* mutant: the path section of the URL is not looked at
linkedinUrlPatternAnyPath(u) ==
    /\ u.scheme \in {"http", "https"}
    /\ u.host \in {"linkedin.com", "www.linkedin.com"}
    /\ u.handle \in {"jane-doe", "jane_doe", "acme"}

\* /^https?:\/\/(www\.)?linkedin\.com\/in\/[\w-]+\/?$/
linkedinUrlPattern(u) ==
    /\ u.scheme \in {"http", "https"}
    /\ u.host \in {"linkedin.com", "www.linkedin.com"}
    /\ u.section = "in"
    /\ u.handle \in {"jane-doe", "jane_doe"}

IdlePost == [pc |-> "idle", url |-> NoUrl, response |-> 0]

\* mutant: the endpoint awaits ingestLinkedInData before it answers
NewRunAwaited(u) ==
    [pc |-> "done", url |-> u, profileJob |-> "SUCCEEDED", postsJob |-> "SUCCEEDED",
     profileItems |-> 1, postsItems |-> 0, errorWrites |-> 0,
     errorWriteFailed |-> FALSE,
     statusWrites |-> <<"scraping_in_progress", "analysis_in_progress">>,
     failure |-> "none", rowsWritten |-> 1]

NewRun(u) ==
    [pc |-> "start", url |-> u, profileJob |-> "none", postsJob |-> "none",
     profileItems |-> 0, postsItems |-> 0, errorWrites |-> 0,
     errorWriteFailed |-> FALSE,
     statusWrites |-> <<>>, failure |-> "none", rowsWritten |-> 0]

OnbInit ==
    /\ onboarding_status = "linkedin_url_pending"
    /\ linkedin_url = NoUrl
    /\ post = IdlePost
    /\ runs = <<>>
    /\ store = [profiles |-> 0, posts |-> 0]

\* POST linkedin-url: auth, body and format checks, ensureUserProfileExists
SubmitUrl ==
    /\ post.pc \in {"idle", "done"}
    /\ Len(runs) < MaxRuns
    /\ \E authed \in BOOLEAN, u \in Urls, ok \in BOOLEAN :
          post' = IF ~authed THEN [pc |-> "done", url |-> u, response |-> 401]
                  ELSE IF IsMissing(u) THEN [pc |-> "done", url |-> u, response |-> 400]
                  ELSE IF ~linkedinUrlPattern(u)
                       THEN [pc |-> "done", url |-> u, response |-> 400]
                  ELSE IF ~ok THEN [pc |-> "done", url |-> u, response |-> 500]
                  ELSE [pc |-> "setUrl", url |-> u, response |-> 0]
    /\ UNCHANGED <<onboarding_status, linkedin_url, runs, store>>
    /\ UNCHANGED <<turnVars, fnVars>>

\* POST linkedin-url: updateLinkedInUrl
PostSetUrl ==
    /\ post.pc = "setUrl"
    /\ \E ok \in BOOLEAN :
          IF ok
          THEN /\ linkedin_url' = post.url
               /\ post' = [post EXCEPT !.pc = "setStatus"]
          ELSE /\ linkedin_url' = linkedin_url
               /\ post' = [post EXCEPT !.pc = "done", !.response = 500]
    /\ UNCHANGED <<onboarding_status, runs, store>>
    /\ UNCHANGED <<turnVars, fnVars>>

\* POST linkedin-url: updateOnboardingStatus, then ingestLinkedInData is started
\* without being awaited and the response is returned
PostSetStatus ==
    /\ post.pc = "setStatus"
    /\ \E ok \in BOOLEAN :
          IF ok
          THEN /\ onboarding_status' = "scraping_in_progress"
               /\ runs' = Append(runs, NewRun(post.url))
               /\ post' = [post EXCEPT !.pc = "done", !.response = 200]
          ELSE /\ UNCHANGED <<onboarding_status, runs>>
               /\ post' = [post EXCEPT !.pc = "done", !.response = 500]
    /\ UNCHANGED <<linkedin_url, store>>
    /\ UNCHANGED <<turnVars, fnVars>>

\* ingestLinkedInData: updateOnboardingStatus(scraping_in_progress)
IngestStart(i) ==
    /\ runs[i].pc = "start"
    /\ \E ok \in BOOLEAN :
          IF ok
          THEN /\ onboarding_status' = "scraping_in_progress"
               /\ runs' = [runs EXCEPT ![i].pc = "trigger",
                                       ![i].statusWrites = Append(@, "scraping_in_progress")]
          ELSE /\ onboarding_status' = onboarding_status
               /\ runs' = [runs EXCEPT ![i].pc = "catch", ![i].failure = "status"]
    /\ UNCHANGED <<linkedin_url, post, store>>
    /\ UNCHANGED <<turnVars, fnVars>>

\* ingestLinkedInData: both actors are triggered
IngestTrigger(i) ==
    /\ runs[i].pc = "trigger"
    /\ \E ok \in BOOLEAN :
          runs' = IF ok
                  THEN [runs EXCEPT ![i].pc = "wait",
                                    ![i].profileJob = "RUNNING",
                                    ![i].postsJob = "RUNNING"]
                  ELSE [runs EXCEPT ![i].pc = "catch", ![i].failure = "trigger"]
    /\ UNCHANGED <<onboarding_status, linkedin_url, post, store>>
    /\ UNCHANGED <<turnVars, fnVars>>

\* how one waitForRunCompletion ends: the run succeeded, or it failed, was
\* aborted, timed out, or the poll deadline passed
JobOutcomes == {"SUCCEEDED", "FAILED"}

ProfileJobSettles(i) ==
    /\ runs[i].pc = "wait"
    /\ runs[i].profileJob = "RUNNING"
    /\ \E o \in JobOutcomes : runs' = [runs EXCEPT ![i].profileJob = o]
    /\ UNCHANGED <<onboarding_status, linkedin_url, post, store>>
    /\ UNCHANGED <<turnVars, fnVars>>

PostsJobSettles(i) ==
    /\ runs[i].pc = "wait"
    /\ runs[i].postsJob = "RUNNING"
    /\ \E o \in JobOutcomes : runs' = [runs EXCEPT ![i].postsJob = o]
    /\ UNCHANGED <<onboarding_status, linkedin_url, post, store>>
    /\ UNCHANGED <<turnVars, fnVars>>

\* mutant: only the profile run is awaited before the data is stored
IngestAwaitProfileOnly(i) ==
    /\ runs[i].pc = "wait"
    /\ \/ /\ runs[i].profileJob = "FAILED"
          /\ runs' = [runs EXCEPT ![i].pc = "catch", ![i].failure = "job"]
       \/ /\ runs[i].profileJob = "SUCCEEDED"
          /\ runs[i].postsJob # "RUNNING"
          /\ runs' = [runs EXCEPT ![i].pc = "fetch"]
    /\ UNCHANGED <<onboarding_status, linkedin_url, post, store>>
    /\ UNCHANGED <<turnVars, fnVars>>

\* ingestLinkedInData: Promise.all over the two waits
IngestAwait(i) ==
    /\ runs[i].pc = "wait"
    /\ \/ /\ "FAILED" \in {runs[i].profileJob, runs[i].postsJob}
          /\ runs' = [runs EXCEPT ![i].pc = "catch", ![i].failure = "job"]
       \/ /\ runs[i].profileJob = "SUCCEEDED"
          /\ runs[i].postsJob = "SUCCEEDED"
          /\ runs' = [runs EXCEPT ![i].pc = "fetch"]
    /\ UNCHANGED <<onboarding_status, linkedin_url, post, store>>
    /\ UNCHANGED <<turnVars, fnVars>>

\* ingestLinkedInData: dataset ids are checked and both datasets are read
IngestFetch(i) ==
    /\ runs[i].pc = "fetch"
    /\ \E ok \in BOOLEAN, np \in 0..1, nq \in 0..MaxScraped :
          runs' = IF ok
                  THEN [runs EXCEPT ![i].pc = "storeProfile",
                                    ![i].profileItems = np,
                                    ![i].postsItems = nq]
                  ELSE [runs EXCEPT ![i].pc = "catch", ![i].failure = "dataset"]
    /\ UNCHANGED <<onboarding_status, linkedin_url, post, store>>
    /\ UNCHANGED <<turnVars, fnVars>>

\* ingestLinkedInData: storeProfileData, or a throw when the profile dataset is empty
IngestStoreProfile(i) ==
    /\ runs[i].pc = "storeProfile"
    /\ \E ok \in BOOLEAN :
          IF runs[i].profileItems > 0 /\ ok
          THEN /\ store' = [store EXCEPT !.profiles = 1]
               /\ runs' = [runs EXCEPT ![i].pc = "storePosts", ![i].rowsWritten = @ + 1]
          ELSE /\ store' = store
               /\ runs' = [runs EXCEPT ![i].pc = "catch",
                                       ![i].failure = IF runs[i].profileItems = 0
                                                      THEN "noProfile" ELSE "store"]
    /\ UNCHANGED <<onboarding_status, linkedin_url, post>>
    /\ UNCHANGED <<turnVars, fnVars>>

\* ingestLinkedInData: storePostsData inserts one row per scraped post with text;
\* a failed insert is logged and skipped
IngestStorePosts(i) ==
    /\ runs[i].pc = "storePosts"
    /\ \E inserted \in 0..runs[i].postsItems :
          /\ store' = [store EXCEPT !.posts = @ + inserted]
          /\ runs' = [runs EXCEPT ![i].pc = "setAnalysis", ![i].rowsWritten = @ + inserted]
    /\ UNCHANGED <<onboarding_status, linkedin_url, post>>
    /\ UNCHANGED <<turnVars, fnVars>>

\* mutant: analyzeUserData is started without the status write
IngestSetAnalysisSkipsWrite(i) ==
    /\ runs[i].pc = "setAnalysis"
    /\ runs' = [runs EXCEPT ![i].pc = "analysis"]
    /\ UNCHANGED <<onboarding_status, linkedin_url, post, store>>
    /\ UNCHANGED <<turnVars, fnVars>>

\* ingestLinkedInData: updateOnboardingStatus(analysis_in_progress), then
\* analyzeUserData is started without being awaited
IngestSetAnalysis(i) ==
    /\ runs[i].pc = "setAnalysis"
    /\ \E ok \in BOOLEAN :
          IF ok
          THEN /\ onboarding_status' = "analysis_in_progress"
               /\ runs' = [runs EXCEPT ![i].pc = "analysis",
                                       ![i].statusWrites = Append(@, "analysis_in_progress")]
          ELSE /\ onboarding_status' = onboarding_status
               /\ runs' = [runs EXCEPT ![i].pc = "catch", ![i].failure = "status"]
    /\ UNCHANGED <<linkedin_url, post, store>>
    /\ UNCHANGED <<turnVars, fnVars>>

\* mutant: the catch block logs the error and leaves the status alone
IngestCatchSilent(i) ==
    /\ runs[i].pc = "catch"
    /\ runs' = [runs EXCEPT ![i].pc = "done"]
    /\ UNCHANGED <<onboarding_status, linkedin_url, post, store>>
    /\ UNCHANGED <<turnVars, fnVars>>

\* ingestLinkedInData catch block: updateOnboardingStatus(error), a failed write
\* is logged
IngestCatch(i) ==
    /\ runs[i].pc = "catch"
    /\ \E ok \in BOOLEAN :
          IF ok
          THEN /\ onboarding_status' = "error"
               /\ runs' = [runs EXCEPT ![i].pc = "done", ![i].errorWrites = @ + 1,
                                       ![i].statusWrites = Append(@, "error")]
          ELSE /\ onboarding_status' = onboarding_status
               /\ runs' = [runs EXCEPT ![i].pc = "done", ![i].errorWriteFailed = TRUE]
    /\ UNCHANGED <<linkedin_url, post, store>>
    /\ UNCHANGED <<turnVars, fnVars>>

\* analyzeUserData steps 1-5: any failure is caught by its own try/catch and
\* returned as { success: false }, so the promise never rejects
Analyze(i) ==
    /\ runs[i].pc = "analysis"
    /\ \E ok \in BOOLEAN :
          runs' = IF ok /\ store.posts > 0
                  THEN [runs EXCEPT ![i].pc = "setReady"]
                  ELSE [runs EXCEPT ![i].pc = "done", ![i].failure = "analysis"]
    /\ UNCHANGED <<onboarding_status, linkedin_url, post, store>>
    /\ UNCHANGED <<turnVars, fnVars>>

\* analyzeUserData step 6: updateOnboardingStatus(ready)
AnalyzeSetReady(i) ==
    /\ runs[i].pc = "setReady"
    /\ \E ok \in BOOLEAN :
          IF ok
          THEN /\ onboarding_status' = "ready"
               /\ runs' = [runs EXCEPT ![i].pc = "memory",
                                       ![i].statusWrites = Append(@, "ready")]
          ELSE /\ onboarding_status' = onboarding_status
               /\ runs' = [runs EXCEPT ![i].pc = "done", ![i].failure = "analysis"]
    /\ UNCHANGED <<linkedin_url, post, store>>
    /\ UNCHANGED <<turnVars, fnVars>>

\* analyzeUserData step 7: createInitialMemory, failures are logged
AnalyzeMemory(i) ==
    /\ runs[i].pc = "memory"
    /\ runs' = [runs EXCEPT ![i].pc = "done"]
    /\ UNCHANGED <<onboarding_status, linkedin_url, post, store>>
    /\ UNCHANGED <<turnVars, fnVars>>

(***************************************************************************)
(* waitForRunCompletion: the poll loop over one scraping run               *)
(***************************************************************************)
\* maxWaitTime, in milliseconds
MaxWaitTime == 300000

\* the pause between two polls, in milliseconds
PollInterval == 2000

\* how many half poll intervals a status request or a late timer may add
MaxLag == 1

RunStatuses == {"READY", "RUNNING", "SUCCEEDED", "FAILED", "ABORTED", "TIMED-OUT"}

\* what one status request gives back: a non-2xx response or the run's status
StatusResponses == {"not ok"} \cup RunStatuses

Lags == {(PollInterval \div 2) * k : k \in 0..MaxLag}

\* the clock of the model stops counting here; every value above MaxWaitTime
\* is past the deadline alike
ClockCap == MaxWaitTime + 2 * PollInterval

Advance(t, d) == IF t + d > ClockCap THEN ClockCap ELSE t + d

IdlePoll == [pc |-> "idle", elapsed |-> 0, status |-> "none", error |-> "none"]

PollInit == poll = IdlePoll

\* mutant: the loop has no deadline
DeadlinePassedNever(elapsed) == FALSE

\* Date.now() - startTime > maxWaitTime
DeadlinePassed(elapsed) == elapsed > MaxWaitTime

\* startTime = Date.now(), the loop is entered
PollStart ==
    /\ poll.pc = "idle"
    /\ poll' = [poll EXCEPT !.pc = "fetch"]
    /\ UNCHANGED <<turnVars, onbVars, scored, selected, styleRun, serviceFnVars>>

\* one pass of the loop body up to the pause: the status request returns and
\* the four checks run in the order of the code
PollFetch ==
    /\ poll.pc = "fetch"
    /\ \E d \in Lags, r \in StatusResponses :
          LET now == Advance(poll.elapsed, d) IN
          poll' = IF r = "not ok"
                    THEN [pc |-> "threw", elapsed |-> now, status |-> poll.status,
                          error |-> "status request"]
                  ELSE IF r = "SUCCEEDED"
                    THEN [pc |-> "returned", elapsed |-> now, status |-> r,
                          error |-> "none"]
                  ELSE IF r \in {"FAILED", "ABORTED", "TIMED-OUT"}
                    THEN [pc |-> "threw", elapsed |-> now, status |-> r,
                          error |-> "run failed"]
                  ELSE IF DeadlinePassed(now)
                    THEN [pc |-> "threw", elapsed |-> now, status |-> r,
                          error |-> "timed out"]
                  ELSE [pc |-> "sleep", elapsed |-> now, status |-> r,
                        error |-> "none"]
    /\ UNCHANGED <<turnVars, onbVars, scored, selected, styleRun, serviceFnVars>>

\* setTimeout(resolve, 2000): the timer fires after the interval, or later
PollSleep ==
    /\ poll.pc = "sleep"
    /\ \E d \in Lags :
          poll' = [poll EXCEPT !.pc = "fetch",
                               !.elapsed = Advance(poll.elapsed, PollInterval + d)]
    /\ UNCHANGED <<turnVars, onbVars, scored, selected, styleRun, serviceFnVars>>

NextPoll == PollStart \/ PollFetch \/ PollSleep

(***************************************************************************)
(* updateEngagementScores                                                  *)
(***************************************************************************)
\* how many posts the scored post set holds
MaxPosts == 4

\* the counters of a post; impressions_count is nullable
PostMetrics ==
    {[likes_count |-> 10, comments_count |-> 2, shares_count |-> 1,
      has_impressions |-> FALSE, impressions_count |-> 0],
     [likes_count |-> 1, comments_count |-> 0, shares_count |-> 0,
      has_impressions |-> FALSE, impressions_count |-> 0],
     [likes_count |-> 0, comments_count |-> 0, shares_count |-> 0,
      has_impressions |-> TRUE, impressions_count |-> 170],
     [likes_count |-> 1, comments_count |-> 0, shares_count |-> 0,
      has_impressions |-> TRUE, impressions_count |-> 5]}

\* a linkedin_posts row as ingestion left it: no score, not high performing
PostRow(id, m) ==
    [id |-> id, metrics |-> m, engagement_score |-> 0, is_high_performing |-> FALSE]

\* the post sets of up to MaxPosts rows, ids in the order of the array
PostSets ==
    UNION {{[i \in 1..n |-> PostRow(i, ms[i])] : ms \in [1..n -> PostMetrics]}
           : n \in 0..MaxPosts}

\* computeEngagementScore, in tenths of a point: the weights 1, 2, 3 and 0.1
\* become 10, 20, 30 and 1
computeEngagementScore(p) ==
    p.metrics.likes_count * 10 + p.metrics.comments_count * 20
        + p.metrics.shares_count * 30
        + (IF p.metrics.has_impressions THEN p.metrics.impressions_count * 1 ELSE 0)

\* Array.prototype.sort with (a, b) => b.engagement_score - a.engagement_score:
\* descending, equal scores keep the order of the array
RECURSIVE SortByScoreDesc(_)
SortByScoreDesc(s) ==
    IF s = <<>> THEN <<>>
    ELSE LET n == Len(s)
             x == s[n]
             front == SortByScoreDesc(SubSeq(s, 1, n - 1))
             k == Cardinality({j \in 1..Len(front) :
                                  front[j].engagement_score >= x.engagement_score})
         IN SubSeq(front, 1, k) \o <<x>> \o SubSeq(front, k + 1, Len(front))

\* mutant: the share is rounded down
highPerformingCountFloor(n) ==
    IF (3 * n) \div 10 > 1 THEN (3 * n) \div 10 ELSE 1

\* Math.max(1, Math.ceil(n * 0.3))
highPerformingCount(n) ==
    IF (3 * n + 9) \div 10 > 1 THEN (3 * n + 9) \div 10 ELSE 1

\* updateEngagementScores: the rows after the update loop, in the order of the
\* loop; the update of position failedAt (0: none) came back with an error,
\* which is logged and leaves that row as it was
updateEngagementScores(posts, failedAt) ==
    IF Len(posts) = 0 THEN posts
    ELSE LET postsWithScores ==
                 SortByScoreDesc([i \in 1..Len(posts) |->
                     [posts[i] EXCEPT !.engagement_score = computeEngagementScore(posts[i])]])
             count == highPerformingCount(Len(postsWithScores))
         IN [i \in 1..Len(postsWithScores) |->
                IF i = failedAt THEN posts[postsWithScores[i].id]
                ELSE [postsWithScores[i] EXCEPT !.is_high_performing = (i <= count)]]

IdleScored == [pc |-> "idle", posts |-> <<>>, failedAt |-> 0, rows |-> <<>>]

ScoresInit == scored = IdleScored

\* analyzeUserData step 1: updateEngagementScores over the loaded posts
ScoresRun ==
    /\ scored.pc = "idle"
    /\ \E posts \in PostSets, failedAt \in 0..MaxPosts :
          /\ failedAt <= Len(posts)
          /\ scored' = [pc |-> "done", posts |-> posts, failedAt |-> failedAt,
                        rows |-> updateEngagementScores(posts, failedAt)]
    /\ UNCHANGED <<turnVars, onbVars, poll, selected, styleRun, serviceFnVars>>

NextScores == ScoresRun

(***************************************************************************)
(* selectCandidatePosts                                                    *)
(***************************************************************************)
\* how many posts the pool handed to selectCandidatePosts holds
MaxPool == 11

\* highPerforming.length >= 5
MinHighPerforming == 5

\* slice(0, 10) and candidates.length >= 10
MaxCandidates == 10

\* which posts of the pool are flagged: the first h or the last h
FlagPatterns == {"first", "last"}

\* how posted_at runs over the pool
DatePatterns == {"newest first", "oldest first", "none", "every second", "same day"}

\* posted_at of post i of n: <<>> is null, <<t>> a timestamp after 1970
PostedAt(i, n, dp) ==
    CASE dp = "newest first" -> <<n - i + 1>>
      [] dp = "oldest first" -> <<i>>
      [] dp = "none" -> <<>>
      [] dp = "every second" -> IF i % 2 = 0 THEN <<>> ELSE <<i>>
      [] OTHER -> <<1>>

PoolPost(i, n, h, fp, dp) ==
    [id |-> i,
     is_high_performing |-> IF fp = "first" THEN i <= h ELSE i > n - h,
     posted_at |-> PostedAt(i, n, dp)]

Pools ==
    {[i \in 1..n |-> PoolPost(i, n, h, fp, dp)] :
        n \in 0..MaxPool, h \in 0..MaxPool, fp \in FlagPatterns, dp \in DatePatterns}

\* a.posted_at ? new Date(a.posted_at).getTime() : 0
DateKey(p) == IF p.posted_at = <<>> THEN 0 ELSE p.posted_at[1]

\* [...posts].sort((a, b) => dateB - dateA): descending, equal keys keep the
\* order of the array
RECURSIVE SortByDateDesc(_)
SortByDateDesc(s) ==
    IF s = <<>> THEN <<>>
    ELSE LET n == Len(s)
             x == s[n]
             front == SortByDateDesc(SubSeq(s, 1, n - 1))
             k == Cardinality({j \in 1..Len(front) : DateKey(front[j]) >= DateKey(x)})
         IN SubSeq(front, 1, k) \o <<x>> \o SubSeq(front, k + 1, Len(front))

Ids(s) == {s[j].id : j \in DOMAIN s}

\* mutant: the recent posts are added without looking at candidateIds
RECURSIVE AddRecentUnchecked(_, _)
AddRecentUnchecked(candidates, rest) ==
    IF rest = <<>> \/ Len(candidates) >= MaxCandidates THEN candidates
    ELSE AddRecentUnchecked(Append(candidates, Head(rest)), Tail(rest))

\* the second loop: recent posts fill the candidates up to 10, ids already
\* taken are skipped
RECURSIVE AddRecent(_, _)
AddRecent(candidates, rest) ==
    IF rest = <<>> \/ Len(candidates) >= MaxCandidates THEN candidates
    ELSE IF Head(rest).id \in Ids(candidates) THEN AddRecent(candidates, Tail(rest))
    ELSE AddRecent(Append(candidates, Head(rest)), Tail(rest))

selectCandidatePosts(posts) ==
    LET highPerforming == SelectSeq(posts, LAMBDA p : p.is_high_performing)
    IN IF Len(highPerforming) >= MinHighPerforming
       THEN SubSeq(highPerforming, 1,
                   IF Len(highPerforming) < MaxCandidates
                   THEN Len(highPerforming) ELSE MaxCandidates)
       ELSE AddRecent(highPerforming, SortByDateDesc(posts))

IdleSelected == [pc |-> "idle", posts |-> <<>>, candidates |-> <<>>]

SelectInit == selected = IdleSelected

\* analyzeUserData step 3: selectCandidatePosts over the reloaded posts
SelectRun ==
    /\ selected.pc = "idle"
    /\ \E posts \in Pools :
          selected' = [pc |-> "done", posts |-> posts,
                       candidates |-> selectCandidatePosts(posts)]
    /\ UNCHANGED <<turnVars, onbVars, poll, scored, styleRun, serviceFnVars>>

NextSelect == SelectRun

(***************************************************************************)
(* generateStyleProfile and the analyzeUserData steps around it            *)
(***************************************************************************)
EmojiUsages == {"none", "minimal", "moderate", "heavy"}

ParagraphDensities == {"compact", "spaced", "varied"}

ArrayFields ==
    {"structure_patterns", "hook_patterns", "favorite_topics",
     "common_phrases_or_cadence_examples"}

\* what a field of the parsed JSON may hold: a string (the enum words and one
\* outside them are strings too), a number, an array of strings, an array of
\* numbers, or nothing
JsonValues ==
    {"text", "lots", "number", "string[]", "number[]", "undefined"}
        \cup EmojiUsages \cup ParagraphDensities

TypeOf(v) ==
    CASE v = "number" -> "number"
      [] v \in {"string[]", "number[]"} -> "object"
      [] v = "undefined" -> "undefined"
      [] OTHER -> "string"

IsArray(v) == v \in {"string[]", "number[]"}

\* a style JSON as the prompt asks for it
WellFormedStyle ==
    [tone |-> "text", formality_level |-> "number", average_length_words |-> "number",
     emoji_usage |-> "minimal", structure_patterns |-> "string[]",
     hook_patterns |-> "string[]", hashtag_style |-> "text",
     favorite_topics |-> "string[]",
     common_phrases_or_cadence_examples |-> "string[]",
     paragraph_density |-> "spaced"]

\* the well-formed style with one field replaced
StyleValues ==
    {[WellFormedStyle EXCEPT ![f] = v] : f \in DOMAIN WellFormedStyle, v \in JsonValues}

\* answers of the completion service to the style-extraction call
StyleResponses ==
    {[kind |-> "throw", value |-> WellFormedStyle],
     [kind |-> "empty", value |-> WellFormedStyle],
     [kind |-> "garbage", value |-> WellFormedStyle]}
    \cup [kind : {"json"}, value : StyleValues]

\* the structure check of generateStyleProfile: TRUE when it does not throw
ValidStyleStructure(parsed) ==
    ~ \/ TypeOf(parsed.tone) # "string"
      \/ TypeOf(parsed.formality_level) # "number"
      \/ TypeOf(parsed.average_length_words) # "number"
      \/ parsed.emoji_usage \notin {"none", "minimal", "moderate", "heavy"}
      \/ ~IsArray(parsed.structure_patterns)
      \/ ~IsArray(parsed.hook_patterns)
      \/ TypeOf(parsed.hashtag_style) # "string"
      \/ ~IsArray(parsed.favorite_topics)
      \/ ~IsArray(parsed.common_phrases_or_cadence_examples)
      \/ parsed.paragraph_density \notin {"compact", "spaced", "varied"}

\* how many usable post texts the candidates carry
TextCounts == {0, 1, 5, 10}

\* confidence from the number of usable texts and the about section
Confidence(texts, about) ==
    IF texts >= 10 /\ about THEN "HIGH"
    ELSE IF texts >= 5 THEN "MEDIUM"
    ELSE "LOW"

\* generateStyleProfile: the style and its confidence, or a thrown error
generateStyleProfile(texts, about, r) ==
    IF texts = 0 THEN [ok |-> FALSE]
    ELSE IF r.kind \in {"throw", "empty", "garbage"} THEN [ok |-> FALSE]
    ELSE IF ~ValidStyleStructure(r.value) THEN [ok |-> FALSE]
    ELSE [ok |-> TRUE, styleJson |-> r.value, confidence |-> Confidence(texts, about)]

IdleStyleRun ==
    [pc |-> "idle", texts |-> 0, about |-> FALSE,
     content |-> [kind |-> "none", value |-> WellFormedStyle],
     accepted |-> FALSE, confidence |-> "none", stored |-> FALSE,
     readyWritten |-> FALSE]

StyleInit == styleRun = IdleStyleRun

\* analyzeUserData step 3: the candidates are selected
StyleSelect ==
    /\ styleRun.pc = "idle"
    /\ onboarding_status = "analysis_in_progress"
    /\ \E texts \in TextCounts, about \in BOOLEAN :
          styleRun' = [styleRun EXCEPT !.pc = "generate", !.texts = texts,
                                       !.about = about]
    /\ UNCHANGED <<turnVars, onbVars, poll, scored, selected, serviceFnVars>>

\* analyzeUserData step 4: generateStyleProfile; a throw ends the run in the
\* catch block, which returns { success: false }
StyleGenerate ==
    /\ styleRun.pc = "generate"
    /\ \E r \in StyleResponses :
          LET out == generateStyleProfile(styleRun.texts, styleRun.about, r)
          IN styleRun' =
                IF out.ok
                THEN [styleRun EXCEPT !.pc = "store", !.content = r,
                                      !.accepted = TRUE,
                                      !.confidence = out.confidence]
                ELSE [styleRun EXCEPT !.pc = "done",
                                      !.content = IF styleRun.texts = 0
                                                  THEN styleRun.content ELSE r]
    /\ UNCHANGED <<turnVars, onbVars, poll, scored, selected, serviceFnVars>>

\* analyzeUserData step 5: storeStyleProfile updates or inserts the row
StyleStore ==
    /\ styleRun.pc = "store"
    /\ \E ok \in BOOLEAN :
          styleRun' = IF ok
                      THEN [styleRun EXCEPT !.pc = "setReady", !.stored = TRUE]
                      ELSE [styleRun EXCEPT !.pc = "done"]
    /\ UNCHANGED <<turnVars, onbVars, poll, scored, selected, serviceFnVars>>

\* analyzeUserData step 6: updateOnboardingStatus(ready)
StyleSetReady ==
    /\ styleRun.pc = "setReady"
    /\ \E ok \in BOOLEAN :
          IF ok
          THEN /\ onboarding_status' = "ready"
               /\ styleRun' = [styleRun EXCEPT !.pc = "done", !.readyWritten = TRUE]
          ELSE /\ onboarding_status' = onboarding_status
               /\ styleRun' = [styleRun EXCEPT !.pc = "done"]
    /\ UNCHANGED <<turnVars, linkedin_url, post, runs, store, poll, scored, selected, serviceFnVars>>

NextStyle == StyleSelect \/ StyleGenerate \/ StyleStore \/ StyleSetReady

\* the state ingestLinkedInData leaves when it starts analyzeUserData
AnalysisStarted ==
    /\ onboarding_status = "analysis_in_progress"
    /\ linkedin_url \in {u \in Urls : linkedinUrlPattern(u)}
    /\ post = IdlePost
    /\ runs = <<>>
    /\ store = [profiles |-> 1, posts |-> 1]

(***************************************************************************)
(* retrieveRelevantPosts                                                   *)
(***************************************************************************)
\* how many rows post_embeddings holds
MaxEmbeddingRows == 3

UserIds == {"u1", "u2"}

\* the values topK takes: the default and two smaller ones
TopKs == {1, 2, TopK}

\* embedding vectors, with small integer components
Vectors == {<<1, 0>>, <<0, 1>>, <<1, 1>>, <<-1, 0>>, <<0, 0>>, <<2>>, <<1, 0, 1>>}

NoVector == <<>>

\* what the embedding column of a row holds when it is read: an array of
\* numbers, an array with an element that is not a number, a string holding
\* the JSON of an array of numbers, or a string that does not parse
RawEmbeddings ==
    [kind : {"numbers"}, vec : Vectors \cup {NoVector}]
        \cup {[kind |-> "mixed", vec |-> <<1, 0>>],
              [kind |-> "json", vec |-> <<0, 1>>],
              [kind |-> "text", vec |-> NoVector]}

\* a row of post_embeddings; row i of the table is the embedding of post i,
\* written with the user_id of the post's owner
EmbeddingRows ==
    [user_id : {"u1"}, embedding : RawEmbeddings]
        \cup {[user_id |-> "u2", embedding |-> [kind |-> "numbers", vec |-> <<1, 1>>]]}

RECURSIVE SeqsUpTo(_, _)
SeqsUpTo(S, n) ==
    IF n = 0 THEN {<<>>}
    ELSE LET shorter == SeqsUpTo(S, n - 1)
         IN shorter \cup {Append(t, x) : t \in {u \in shorter : Len(u) = n - 1}, x \in S}

EmbeddingTables == SeqsUpTo(EmbeddingRows, MaxEmbeddingRows)

\* what openai.embeddings.create answers
EmbeddingResponses ==
    {[kind |-> "throw", vec |-> NoVector],
     [kind |-> "no data", vec |-> NoVector],
     [kind |-> "not an array", vec |-> NoVector]}
        \cup [kind : {"vector"}, vec : {<<1, 0>>, <<1, 1>>}]

\* mutant: only the empty string counts as blank
IsEmptyQuery(q) == q = ""

\* !queryText || queryText.trim().length === 0
IsBlankQuery(q) == q \in {"", " "}

\* the type guard of the loop: a non-empty array of numbers, or a string
\* that parses to one; anything else is skipped
parseEmbedding(raw) ==
    IF raw.kind \in {"numbers", "json"} /\ Len(raw.vec) > 0 THEN raw.vec
    ELSE NoVector

RECURSIVE Dot(_, _, _)
Dot(a, b, n) == IF n = 0 THEN 0 ELSE Dot(a, b, n - 1) + a[n] * b[n]

\* the similarity of one row: the dot product and the two squared norms over
\* the first minLength components of both vectors
cosineParts(embedding, queryEmbedding) ==
    LET minLength == IF Len(embedding) < Len(queryEmbedding)
                     THEN Len(embedding) ELSE Len(queryEmbedding)
    IN [dotProduct |-> Dot(embedding, queryEmbedding, minLength),
        norm1sq |-> Dot(embedding, embedding, minLength),
        norm2sq |-> Dot(queryEmbedding, queryEmbedding, minLength)]

\* dotProduct / (norm1 * norm2) of a is greater than that of b; the quotients
\* are compared exactly, through their signs and squares
SimilarityGreater(a, b) ==
    LET a2 == a.dotProduct * a.dotProduct * b.norm1sq * b.norm2sq
        b2 == b.dotProduct * b.dotProduct * a.norm1sq * a.norm2sq
    IN IF a.dotProduct >= 0
       THEN IF b.dotProduct < 0 THEN TRUE ELSE a2 > b2
       ELSE IF b.dotProduct >= 0 THEN FALSE ELSE a2 < b2

\* the loop over embeddingsData: rows without a usable embedding, and rows
\* with a zero norm, are skipped
RECURSIVE similaritiesOf(_, _, _)
similaritiesOf(embeddingsData, queryEmbedding, n) ==
    IF n = 0 THEN <<>>
    ELSE LET item == embeddingsData[n]
             embedding == parseEmbedding(item.embedding)
             parts == cosineParts(embedding, queryEmbedding)
             front == similaritiesOf(embeddingsData, queryEmbedding, n - 1)
         IN IF embedding = NoVector THEN front
            ELSE IF parts.norm1sq = 0 \/ parts.norm2sq = 0 THEN front
            ELSE Append(front, [postId |-> item.post_id, similarity |-> parts])

\* mutant: the similarities are left in the order of the rows
SortBySimilarityKeepOrder(s) == s

\* similarities.sort((a, b) => b.similarity - a.similarity): descending,
\* equal similarities keep the order of the array
RECURSIVE SortBySimilarityDesc(_)
SortBySimilarityDesc(s) ==
    IF s = <<>> THEN <<>>
    ELSE LET n == Len(s)
             x == s[n]
             front == SortBySimilarityDesc(SubSeq(s, 1, n - 1))
             k == Cardinality({j \in 1..Len(front) :
                       ~SimilarityGreater(x.similarity, front[j].similarity)})
         IN SubSeq(front, 1, k) \o <<x>> \o SubSeq(front, k + 1, Len(front))

\* select post_id, embedding from post_embeddings where user_id = userId,
\* in the order in which the table returns its rows
RECURSIVE embeddingsOfUser(_, _)
embeddingsOfUser(table, userId) ==
    IF table = <<>> THEN <<>>
    ELSE LET n == Len(table)
             front == embeddingsOfUser(SubSeq(table, 1, n - 1), userId)
         IN IF table[n].user_id = userId
            THEN Append(front, [post_id |-> n, embedding |-> table[n].embedding])
            ELSE front

\* similarities.slice(0, topK).map((s) => s.postId)
topPostIdsOf(table, userId, queryEmbedding, topK) ==
    LET embeddingsData == embeddingsOfUser(table, userId)
        similarities ==
            SortBySimilarityDesc(
                similaritiesOf(embeddingsData, queryEmbedding, Len(embeddingsData)))
        m == IF Len(similarities) < topK THEN Len(similarities) ELSE topK
    IN [i \in 1..m |-> similarities[i].postId]

IdleRetrieval ==
    [pc |-> "idle", userId |-> "u1", queryText |-> "", topK |-> TopK,
     queryEmbedding |-> NoVector, table |-> <<>>, topPostIds |-> <<>>,
     embeddingCalls |-> 0, fetched |-> FALSE, result |-> <<>>]

RetrievalInit == retrieval = IdleRetrieval

\* the call and its first check: a blank query returns [] at once
RetrieveCall ==
    /\ retrieval.pc = "idle"
    /\ \E q \in UserMessages, k \in TopKs :
          retrieval' = [retrieval EXCEPT !.pc = IF IsBlankQuery(q) THEN "returned"
                                                ELSE "embed",
                                         !.queryText = q, !.topK = k]
    /\ UNCHANGED <<turnVars, onbVars, pipelineFnVars, memory, chatlog, cleaned, factsBlock>>

\* openai.embeddings.create and the two checks of its answer
RetrieveEmbed ==
    /\ retrieval.pc = "embed"
    /\ \E r \in EmbeddingResponses :
          retrieval' = [retrieval EXCEPT
                           !.pc = IF r.kind = "throw" THEN "threw"
                                  ELSE IF r.kind = "vector" THEN "fetchEmbeddings"
                                  ELSE "returned",
                           !.embeddingCalls = @ + 1,
                           !.queryEmbedding = r.vec]
    /\ UNCHANGED <<turnVars, onbVars, pipelineFnVars, memory, chatlog, cleaned, factsBlock>>

\* the embeddings of the user are read and ranked; an error of the read, no
\* rows and no usable similarity each return []
RetrieveRank ==
    /\ retrieval.pc = "fetchEmbeddings"
    /\ \E table \in EmbeddingTables, ok \in BOOLEAN :
          LET ids == topPostIdsOf(table, retrieval.userId,
                                  retrieval.queryEmbedding, retrieval.topK)
          IN retrieval' = [retrieval EXCEPT
                              !.pc = IF ok /\ ids # <<>> THEN "fetchPosts"
                                     ELSE "returned",
                              !.table = table,
                              !.fetched = ok,
                              !.topPostIds = IF ok THEN ids ELSE <<>>]
    /\ UNCHANGED <<turnVars, onbVars, pipelineFnVars, memory, chatlog, cleaned, factsBlock>>

\* the posts are read by id and returned in the order of topPostIds; an
\* error of the read returns []
RetrieveFetchPosts ==
    /\ retrieval.pc = "fetchPosts"
    /\ \E ok \in BOOLEAN :
          retrieval' = [retrieval EXCEPT
                           !.pc = "returned",
                           !.result = IF ok THEN retrieval.topPostIds ELSE <<>>]
    /\ UNCHANGED <<turnVars, onbVars, pipelineFnVars, memory, chatlog, cleaned, factsBlock>>

NextRetrieval == RetrieveCall \/ RetrieveEmbed \/ RetrieveRank \/ RetrieveFetchPosts

(***************************************************************************)
(* upsertMemory                                                            *)
(***************************************************************************)
\* how many upsertMemory calls one behaviour starts
MaxUpserts == 3

\* the summaries the calls write
Summaries == {"summary a", "summary b"}

\* one upsertMemory(userId, summaryType, content) call: where it stands and
\* the id getMemoryEntry handed it (0: no entry)
NewUpsert(content) == [pc |-> "check", content |-> content, existing |-> 0]

\* the rows of long_term_memory for one user and one summary_type, in the
\* order of their creation (the id of a row is its position), the id of the
\* row written last, and the calls started so far
MemoryInit == memory = [rows |-> <<>>, latest |-> 0, calls |-> <<>>]

\* a summary was generated and upsertMemory is called with it: by
\* createInitialMemory, or by the memory refresh a turn leaves running
UpsertStart ==
    /\ Len(memory.calls) < MaxUpserts
    /\ \E content \in Summaries :
          memory' = [memory EXCEPT !.calls = Append(@, NewUpsert(content))]
    /\ UNCHANGED <<turnVars, onbVars, pipelineFnVars, retrieval, chatlog, cleaned, factsBlock>>

\* getMemoryEntry: the newest entry of the type, or null; a failed read throws
UpsertCheck(i) ==
    /\ memory.calls[i].pc = "check"
    /\ \E ok \in BOOLEAN :
          memory' = [memory EXCEPT
                        !.calls[i].pc = IF ok THEN "write" ELSE "threw",
                        !.calls[i].existing = IF ok THEN memory.latest ELSE 0]
    /\ UNCHANGED <<turnVars, onbVars, pipelineFnVars, retrieval, chatlog, cleaned, factsBlock>>

\* the update of the entry found, or the insert of a new one: the table has
\* no unique key on (user_id, summary_type), the row is added; an error of
\* either throws
UpsertWrite(i) ==
    /\ memory.calls[i].pc = "write"
    /\ \E ok \in BOOLEAN :
          LET c == memory.calls[i]
          IN IF ~ok
             THEN memory' = [memory EXCEPT !.calls[i].pc = "threw"]
             ELSE IF c.existing # 0
             THEN memory' = [memory EXCEPT !.calls[i].pc = "returned",
                                           !.rows[c.existing] = c.content,
                                           !.latest = c.existing]
             ELSE memory' = [memory EXCEPT
                                !.calls[i].pc = "returned",
                                !.rows = Append(@, c.content),
                                !.latest = Len(memory.rows) + 1]
    /\ UNCHANGED <<turnVars, onbVars, pipelineFnVars, retrieval, chatlog, cleaned, factsBlock>>

NextMemory ==
    \/ UpsertStart
    \/ \E i \in 1..Len(memory.calls) : UpsertCheck(i)
    \/ \E i \in 1..Len(memory.calls) : UpsertWrite(i)

(***************************************************************************)
(* chat messages                                                           *)
(***************************************************************************)
\* how many messages the chat holds when the behaviour starts
MaxMessages == 11

\* how many messages are created while the behaviour runs
MaxCreates == 2

\* chatHistory.slice(-5) of classifyIntent
ClassifierWindow == 5

\* chatHistory.slice(-10) of buildFactsBlock
FactsWindow == 10

\* what a message is to the code that reads it: its role, and whether its
\* content mentions 'strategy', 'theme' or 'topic'
MessageKinds ==
    {[role |-> "user", topic |-> "strategy"],
     [role |-> "user", topic |-> "other"],
     [role |-> "assistant", topic |-> "other"]}

Message(t, kind) == [created_at |-> t, role |-> kind.role, topic |-> kind.topic]

\* a chat of n messages written one after the other, user and assistant
\* taking turns; message f, if it is a user message, mentions strategy
SeededChat(n, f) ==
    [i \in 1..n |->
        Message(i, IF i % 2 = 0 THEN [role |-> "assistant", topic |-> "other"]
                   ELSE IF i = f THEN [role |-> "user", topic |-> "strategy"]
                   ELSE [role |-> "user", topic |-> "other"])]

\* array.slice(-n)
LastN(s, n) == IF Len(s) <= n THEN s ELSE SubSeq(s, Len(s) - n + 1, Len(s))

\* mutant: the rows come back in the order of their insertion
KeepInsertOrder(s) == s

\* .order('created_at', { ascending: true })
RECURSIVE SortByCreatedAtAsc(_)
SortByCreatedAtAsc(s) ==
    IF s = <<>> THEN <<>>
    ELSE LET n == Len(s)
             x == s[n]
             front == SortByCreatedAtAsc(SubSeq(s, 1, n - 1))
             k == Cardinality({j \in 1..Len(front) :
                                  front[j].created_at <= x.created_at})
         IN SubSeq(front, 1, k) \o <<x>> \o SubSeq(front, k + 1, Len(front))

\* chatMessages.filter(role === 'user' && content mentions strategy, theme
\* or topic)
RECURSIVE strategyMessagesOf(_)
strategyMessagesOf(s) ==
    IF s = <<>> THEN <<>>
    ELSE LET front == strategyMessagesOf(SubSeq(s, 1, Len(s) - 1))
             m == s[Len(s)]
         IN IF m.role = "user" /\ m.topic = "strategy" THEN Append(front, m)
            ELSE front

IdleChatlog ==
    [pc |-> "idle", rows |-> <<>>, stamped |-> {}, clock |-> 0, created |-> 0,
     chatHistory |-> <<>>, classifierWindow |-> <<>>, factsWindow |-> <<>>,
     refreshed |-> FALSE, memoryWindow |-> <<>>]

ChatlogInit == chatlog = IdleChatlog

\* the chat as earlier turns left it
ChatSeed ==
    /\ chatlog.pc = "idle"
    /\ \E n \in 0..MaxMessages, f \in 0..MaxMessages :
          /\ f <= n
          /\ f % 2 = 1 \/ f = 0
          /\ chatlog' = [chatlog EXCEPT !.pc = "writing", !.rows = SeededChat(n, f),
                                        !.clock = n]
    /\ UNCHANGED <<turnVars, onbVars, pipelineFnVars, retrieval, memory, cleaned, factsBlock>>

\* createChatMessage, first half: now = new Date().toISOString()
MessageStamp ==
    /\ chatlog.pc = "writing"
    /\ chatlog.created < MaxCreates
    /\ \E kind \in MessageKinds :
          chatlog' = [chatlog EXCEPT
                         !.clock = @ + 1,
                         !.created = @ + 1,
                         !.stamped = @ \cup {Message(chatlog.clock + 1, kind)}]
    /\ UNCHANGED <<turnVars, onbVars, pipelineFnVars, retrieval, memory, cleaned, factsBlock>>

\* createChatMessage, second half: the insert of a stamped message; the
\* inserts of two requests land in either order
MessageInsert ==
    /\ chatlog.pc = "writing"
    /\ \E m \in chatlog.stamped :
          chatlog' = [chatlog EXCEPT !.rows = Append(@, m),
                                     !.stamped = @ \ {m}]
    /\ UNCHANGED <<turnVars, onbVars, pipelineFnVars, retrieval, memory, cleaned, factsBlock>>

\* the respond handler reads the history: getChatMessages(chatId)
ChatRead ==
    /\ chatlog.pc = "writing"
    /\ chatlog' = [chatlog EXCEPT !.pc = "read",
                                  !.chatHistory = SortByCreatedAtAsc(chatlog.rows)]
    /\ UNCHANGED <<turnVars, onbVars, pipelineFnVars, retrieval, memory, cleaned, factsBlock>>

\* classifyIntent builds its facts from the last five messages
ChatClassify ==
    /\ chatlog.pc = "read"
    /\ chatlog' = [chatlog EXCEPT
                      !.pc = "classified",
                      !.classifierWindow = LastN(chatlog.chatHistory, ClassifierWindow)]
    /\ UNCHANGED <<turnVars, onbVars, pipelineFnVars, retrieval, memory, cleaned, factsBlock>>

\* buildFactsBlock lists the last ten messages
ChatFacts ==
    /\ chatlog.pc = "classified"
    /\ chatlog' = [chatlog EXCEPT
                      !.pc = "generated",
                      !.factsWindow = LastN(chatlog.chatHistory, FactsWindow)]
    /\ UNCHANGED <<turnVars, onbVars, pipelineFnVars, retrieval, memory, cleaned, factsBlock>>

\* the assistant message is saved and the memory refresh runs over the
\* history with that message appended: with three posts or five messages,
\* updateContentStrategy hands buildFactsBlock the strategy messages if
\* there are any, and the whole history if not
ChatRefresh ==
    /\ chatlog.pc = "generated"
    /\ \E enoughPosts \in BOOLEAN :
          LET assistantMessage ==
                  Message(chatlog.clock + 1, [role |-> "assistant", topic |-> "other"])
              updatedHistory == Append(chatlog.chatHistory, assistantMessage)
              strategyMessages == strategyMessagesOf(updatedHistory)
              refreshRuns == enoughPosts \/ Len(updatedHistory) >= 5
          IN chatlog' = [chatlog EXCEPT
                            !.pc = "done",
                            !.clock = @ + 1,
                            !.rows = Append(@, assistantMessage),
                            !.refreshed = refreshRuns,
                            !.memoryWindow =
                                IF ~refreshRuns THEN <<>>
                                ELSE LastN(IF Len(strategyMessages) > 0
                                           THEN strategyMessages
                                           ELSE updatedHistory, FactsWindow)]
    /\ UNCHANGED <<turnVars, onbVars, pipelineFnVars, retrieval, memory, cleaned, factsBlock>>

NextChatlog ==
    \/ ChatSeed \/ MessageStamp \/ MessageInsert
    \/ ChatRead \/ ChatClassify \/ ChatFacts \/ ChatRefresh

(***************************************************************************)
(* cleanLinkedInPostText                                                   *)
(***************************************************************************)
\* how many symbols a raw text has
MaxTextLen == 6

\* the symbols of a text, as the two patterns see them: a blank, a newline
\* or tab, the scheme 'http://' or 'https://', '?' or '&', a tracking key
\* ('utm_', 'ref=', 'source=', 'medium='), and any other character
TextSymbols == {" ", "nl", "scheme", "?", "utm_", "x"}

\* \s
IsSpace(c) == c \in {" ", "nl"}

RawTexts == SeqsUpTo(TextSymbols, MaxTextLen)

\* /https?:\/\/[^\s]+[?&](?:utm_|ref=|source=|medium=)[^\s]*/ matches at i:
\* the scheme, at least one non-blank symbol, a separator followed by a
\* tracking key, with no blank in between
TrackingUrlAt(text, i) ==
    /\ text[i] = "scheme"
    /\ \E j \in (i + 2)..(Len(text) - 1) :
          /\ text[j] = "?"
          /\ text[j + 1] = "utm_"
          /\ \A k \in (i + 1)..j : ~IsSpace(text[k])

\* where the match that starts at i ends: the trailing [^\s]* takes every
\* symbol up to the next blank
RECURSIVE MatchEnd(_, _)
MatchEnd(text, i) ==
    IF i < Len(text) /\ ~IsSpace(text[i + 1]) THEN MatchEnd(text, i + 1) ELSE i

\* text.replace(pattern, '') with the g flag, scanning from symbol i: every
\* match, leftmost first, is cut out
RECURSIVE removeTrackingUrls(_, _)
removeTrackingUrls(text, i) ==
    IF i > Len(text) THEN <<>>
    ELSE IF TrackingUrlAt(text, i)
         THEN removeTrackingUrls(text, MatchEnd(text, i) + 1)
    ELSE <<text[i]>> \o removeTrackingUrls(text, i + 1)

\* mutant: replace(/\s\s/g, ' '), every pair of blanks becomes one blank
RECURSIVE collapsePairs(_)
collapsePairs(text) ==
    IF text = <<>> THEN <<>>
    ELSE IF Len(text) >= 2 /\ IsSpace(text[1]) /\ IsSpace(text[2])
         THEN <<" ">> \o collapsePairs(SubSeq(text, 3, Len(text)))
    ELSE <<text[1]>> \o collapsePairs(Tail(text))

\* replace(/\s+/g, ' '): every run of blanks becomes one blank
RECURSIVE collapseWhitespace(_)
collapseWhitespace(text) ==
    IF text = <<>> THEN <<>>
    ELSE LET front == collapseWhitespace(SubSeq(text, 1, Len(text) - 1))
             c == text[Len(text)]
         IN IF ~IsSpace(c) THEN Append(front, c)
            ELSE IF front # <<>> /\ front[Len(front)] = " " THEN front
            ELSE Append(front, " ")

\* replace(/^\s+|\s+$/g, ''): the blanks at both ends are cut
RECURSIVE trim(_)
trim(text) ==
    IF text = <<>> THEN <<>>
    ELSE IF IsSpace(text[1]) THEN trim(Tail(text))
    ELSE IF IsSpace(text[Len(text)]) THEN trim(SubSeq(text, 1, Len(text) - 1))
    ELSE text

normalizeWhitespace(text) == trim(collapseWhitespace(text))

\* !rawText returns ''; else tracking URLs are removed, then whitespace is
\* normalized
cleanLinkedInPostText(rawText) ==
    IF rawText = <<>> THEN <<>>
    ELSE normalizeWhitespace(removeTrackingUrls(rawText, 1))

IdleCleaned == [pc |-> "idle", rawText |-> <<>>, once |-> <<>>, twice |-> <<>>]

CleanInit == cleaned = IdleCleaned

\* storePostsData cleans the text of a scraped post; a later pass over the
\* stored text cleans it again
CleanRun ==
    /\ cleaned.pc = "idle"
    /\ \E rawText \in RawTexts :
          cleaned' = [pc |-> "done", rawText |-> rawText,
                      once |-> cleanLinkedInPostText(rawText),
                      twice |-> cleanLinkedInPostText(cleanLinkedInPostText(rawText))]
    /\ UNCHANGED <<turnVars, onbVars, pipelineFnVars, retrieval, memory, chatlog, factsBlock>>

NextClean == CleanRun

(***************************************************************************)
(* buildFactsBlock                                                         *)
(***************************************************************************)
\* what buildFactsBlock reads of a retrieved post: whether it has a text,
\* a date, and the high-performing flag; a retrieved post has an embedding,
\* and embeddings are made only of posts with a text
FactPosts == [text : {TRUE}, posted_at : BOOLEAN, is_high_performing : BOOLEAN]

\* the profile handed in: null, or a row whose four fields are set or not
ProfileFields == {"headline", "about", "location", "experience_json"}

NoProfile == [row |-> FALSE, fields |-> {}]

FactProfiles == {NoProfile} \cup [row : {TRUE}, fields : SUBSET ProfileFields]

\* how many memory entries and how many chat messages are handed in
FactCounts == 0..2

\* the lines one post adds
PostLines(p) ==
    IF ~p.text THEN <<>>
    ELSE <<"post text">>
            \o (IF p.posted_at THEN <<"post date">> ELSE <<>>)
            \o (IF p.is_high_performing THEN <<"post performance">> ELSE <<>>)

RECURSIVE PostsLines(_)
PostsLines(posts) ==
    IF posts = <<>> THEN <<>>
    ELSE PostsLines(SubSeq(posts, 1, Len(posts) - 1))
            \o PostLines(posts[Len(posts)])

\* the facts array of buildFactsBlock: per source, the header if the source
\* is there, then one line per value that is set
factsOf(posts, prof, memoryCount, historyCount) ==
    (IF Len(posts) > 0 THEN <<"posts header">> \o PostsLines(posts) ELSE <<>>)
    \o (IF prof.row
        THEN <<"profile header">>
                \o (IF "headline" \in prof.fields THEN <<"headline">> ELSE <<>>)
                \o (IF "about" \in prof.fields THEN <<"about">> ELSE <<>>)
                \o (IF "location" \in prof.fields THEN <<"location">> ELSE <<>>)
                \o (IF "experience_json" \in prof.fields THEN <<"experience">> ELSE <<>>)
        ELSE <<>>)
    \o (IF memoryCount > 0
        THEN <<"memory header">> \o [i \in 1..memoryCount |-> "memory entry"]
        ELSE <<>>)
    \o (IF historyCount > 0
        THEN <<"history header">>
                \o [i \in 1..(IF historyCount < FactsWindow THEN historyCount
                              ELSE FactsWindow) |-> "message"]
        ELSE <<>>)

\* the block returned: the 'No verified data available' text when facts is
\* empty, the facts under the critical rules when it is not
buildFactsBlock(posts, prof, memoryCount, historyCount) ==
    LET facts == factsOf(posts, prof, memoryCount, historyCount)
    IN [facts |-> facts,
        framing |-> IF Len(facts) = 0 THEN "no verified data" ELSE "critical rules"]

IdleFactsBlock ==
    [pc |-> "idle", ragPosts |-> <<>>, profile |-> NoProfile, memory |-> 0,
     chatHistory |-> 0, block |-> [facts |-> <<>>, framing |-> "none"]]

FactsInit == factsBlock = IdleFactsBlock

\* a generation step builds the FACTS block from what the turn loaded
FactsBuild ==
    /\ factsBlock.pc = "idle"
    /\ \E posts \in SeqsUpTo(FactPosts, MaxStoredPosts), prof \in FactProfiles,
          m \in FactCounts, h \in FactCounts :
          factsBlock' = [pc |-> "built", ragPosts |-> posts, profile |-> prof,
                         memory |-> m, chatHistory |-> h,
                         block |-> buildFactsBlock(posts, prof, m, h)]
    /\ UNCHANGED <<turnVars, onbVars, pipelineFnVars, retrieval, memory, chatlog, cleaned>>

NextFacts == FactsBuild

(***************************************************************************)
(* The specifications                                                      *)
(***************************************************************************)
ServiceInit ==
    RetrievalInit /\ MemoryInit /\ ChatlogInit /\ CleanInit /\ FactsInit

InitStyle ==
    /\ TurnInit /\ AnalysisStarted
    /\ PollInit /\ ScoresInit /\ SelectInit /\ StyleInit
    /\ ServiceInit

Init ==
    /\ TurnInit /\ OnbInit
    /\ PollInit /\ ScoresInit /\ SelectInit /\ StyleInit
    /\ ServiceInit

Spec == Init /\ [][Next]_vars

\* a respond request arrives whatever the onboarding status of the user is:
\* the handler reads neither user_profile nor the status
RespondStart ==
    /\ onboarding_status \in Statuses
    /\ linkedin_url \in IF onboarding_status = "linkedin_url_pending" THEN {NoUrl}
                        ELSE {u \in Urls : linkedinUrlPattern(u)}
    /\ post = IdlePost
    /\ runs = <<>>
    /\ store = IF onboarding_status \in {"analysis_in_progress", "ready"}
               THEN [profiles |-> 1, posts |-> 1]
               ELSE [profiles |-> 0, posts |-> 0]

InitRespond ==
    /\ TurnInit /\ RespondStart
    /\ PollInit /\ ScoresInit /\ SelectInit /\ StyleInit
    /\ ServiceInit

SpecRespond == InitRespond /\ [][Next]_vars

NextOnboarding ==
    \/ SubmitUrl
    \/ PostSetUrl
    \/ PostSetStatus
    \/ \E i \in 1..Len(runs) : IngestStart(i)
    \/ \E i \in 1..Len(runs) : IngestTrigger(i)
    \/ \E i \in 1..Len(runs) : ProfileJobSettles(i)
    \/ \E i \in 1..Len(runs) : PostsJobSettles(i)
    \/ \E i \in 1..Len(runs) : IngestAwait(i)
    \/ \E i \in 1..Len(runs) : IngestFetch(i)
    \/ \E i \in 1..Len(runs) : IngestStoreProfile(i)
    \/ \E i \in 1..Len(runs) : IngestStorePosts(i)
    \/ \E i \in 1..Len(runs) : IngestSetAnalysis(i)
    \/ \E i \in 1..Len(runs) : IngestCatch(i)
    \/ \E i \in 1..Len(runs) : Analyze(i)
    \/ \E i \in 1..Len(runs) : AnalyzeSetReady(i)
    \/ \E i \in 1..Len(runs) : AnalyzeMemory(i)

SpecOnboarding == Init /\ [][NextOnboarding]_vars

\* every call of the endpoint and of a pipeline returns, with a result or
\* with an error: each step that is enabled is eventually taken; nothing
\* makes the user submit again
OnboardingFairness ==
    /\ WF_vars(PostSetUrl)
    /\ WF_vars(PostSetStatus)
    /\ WF_vars(\E i \in 1..Len(runs) : IngestStart(i))
    /\ WF_vars(\E i \in 1..Len(runs) : IngestTrigger(i))
    /\ WF_vars(\E i \in 1..Len(runs) : ProfileJobSettles(i))
    /\ WF_vars(\E i \in 1..Len(runs) : PostsJobSettles(i))
    /\ WF_vars(\E i \in 1..Len(runs) : IngestAwait(i))
    /\ WF_vars(\E i \in 1..Len(runs) : IngestFetch(i))
    /\ WF_vars(\E i \in 1..Len(runs) : IngestStoreProfile(i))
    /\ WF_vars(\E i \in 1..Len(runs) : IngestStorePosts(i))
    /\ WF_vars(\E i \in 1..Len(runs) : IngestSetAnalysis(i))
    /\ WF_vars(\E i \in 1..Len(runs) : IngestCatch(i))
    /\ WF_vars(\E i \in 1..Len(runs) : Analyze(i))
    /\ WF_vars(\E i \in 1..Len(runs) : AnalyzeSetReady(i))
    /\ WF_vars(\E i \in 1..Len(runs) : AnalyzeMemory(i))

SpecOnboardingFair == SpecOnboarding /\ OnboardingFairness

SpecPoll == Init /\ [][NextPoll]_vars

\* every status request returns and every timer fires
SpecPollFair == SpecPoll /\ WF_vars(NextPoll)

SpecScores == Init /\ [][NextScores]_vars

SpecSelect == Init /\ [][NextSelect]_vars

SpecStyle == InitStyle /\ [][NextStyle]_vars

SpecRetrieval == Init /\ [][NextRetrieval]_vars

SpecMemory == Init /\ [][NextMemory]_vars

SpecChatlog == Init /\ [][NextChatlog]_vars

SpecClean == Init /\ [][NextClean]_vars

SpecFacts == Init /\ [][NextFacts]_vars

(***************************************************************************)
(* Claims about the onboarding status                                      *)
(***************************************************************************)
LegalEdges ==
    {<<"linkedin_url_pending", "scraping_in_progress">>,
     <<"scraping_in_progress", "analysis_in_progress">>,
     <<"analysis_in_progress", "ready">>,
     <<"scraping_in_progress", "error">>,
     <<"analysis_in_progress", "error">>,
     <<"error", "scraping_in_progress">>}

\* C1: every change of the persisted onboarding_status follows one of the edges
\* pending -> scraping -> analysis -> ready, scraping/analysis -> error,
\* error -> scraping; no other transition ever occurs.
C1_OnlyLegalTransitions ==
    [][onboarding_status' # onboarding_status
         => <<onboarding_status, onboarding_status'>> \in LegalEdges]_vars

\* the URL shape the endpoint documents: http or https, linkedin.com with or
\* without www, the /in/ section and a handle of word characters and dashes
ProfileUrl(u) ==
    /\ u.scheme \in {"http", "https"}
    /\ u.host \in {"linkedin.com", "www.linkedin.com"}
    /\ u.section = "in"
    /\ u.handle # ""

HttpsProfileUrl(u) == ProfileUrl(u) /\ u.scheme = "https"

\* the endpoint takes up a request
Submitted == post.pc \in {"idle", "done"} /\ post' # post

\* positions of status s among the writes of run r
WritesOf(r, s) == {k \in DOMAIN r.statusWrites : r.statusWrites[k] = s}

BothSucceeded(r) == r.profileJob = "SUCCEEDED" /\ r.postsJob = "SUCCEEDED"

\* C11: when the endpoint answers the valid URL of an authenticated user whose
\* status is linkedin_url_pending, the persisted status is scraping_in_progress
\* at the moment of the answer and the ingestion it started has not run a step:
\* the answer does not wait for it. Only a failed database write ends the
\* request otherwise, with a 500 and nothing started.
C11_SubmitSetsScraping ==
    [][(post.pc = "setStatus" /\ post'.pc = "done"
            /\ onboarding_status = "linkedin_url_pending")
         => \/ /\ post'.response = 200
               /\ onboarding_status' = "scraping_in_progress"
               /\ Len(runs') = Len(runs) + 1
               /\ runs'[Len(runs')].pc = "start"
               /\ runs'[Len(runs')].statusWrites = <<>>
               /\ runs'[Len(runs')].url = post.url
            \/ /\ post'.response = 500
               /\ onboarding_status' = onboarding_status
               /\ runs' = runs]_vars

C11_Witness ==
    /\ post.pc = "done"
    /\ post.response = 200
    /\ ProfileUrl(post.url)
    /\ Len(runs) = 1
    /\ runs[1].pc = "start"
    /\ onboarding_status = "scraping_in_progress"

\* C12 (amended): a submitted URL that does not match
\* http(s)://(www.)linkedin.com/in/<handle> is answered with an error at once;
\* the status, the stored URL, the pipelines and the stored rows stay as they
\* were.
C12_MalformedRejected ==
    [][(Submitted /\ ~ProfileUrl(post'.url))
         => /\ post'.pc = "done"
            /\ post'.response \in {400, 401}
            /\ UNCHANGED <<onboarding_status, linkedin_url, runs, store>>]_vars

C12_Witness ==
    /\ post.pc = "done"
    /\ post.response = 400
    /\ post.url.section = "company"
    /\ onboarding_status = "linkedin_url_pending"
    /\ linkedin_url = NoUrl
    /\ runs = <<>>

\* C12 as stated: every URL that does not match
\* https://(www.)linkedin.com/in/<handle> is rejected.
C12_HttpsOnly ==
    [][(Submitted /\ ~HttpsProfileUrl(post'.url))
         => /\ post'.pc = "done"
            /\ post'.response \in {400, 401}
            /\ UNCHANGED <<onboarding_status, linkedin_url, runs, store>>]_vars

C15_StoreAfterBothSucceed ==
    \A i \in DOMAIN runs :
        /\ runs[i].rowsWritten > 0 => BothSucceeded(runs[i])
        /\ runs[i].pc \in {"storeProfile", "storePosts"} => BothSucceeded(runs[i])
        /\ runs[i].postsJob = "FAILED" => runs[i].rowsWritten = 0

C15_Witness ==
    \E i \in DOMAIN runs :
        /\ runs[i].pc = "done"
        /\ runs[i].profileJob = "SUCCEEDED"
        /\ runs[i].postsJob = "FAILED"
        /\ runs[i].rowsWritten = 0
        /\ store = [profiles |-> 0, posts |-> 0]

\* C17: at most one onboarding pipeline of the user is in progress at any
\* time: a submission made while one is running starts no second one.
C17_OnePipelineAtATime ==
    Cardinality({i \in DOMAIN runs : runs[i].pc # "done"}) <= 1

(***************************************************************************)
(* Claims about the poll loop                                              *)
(***************************************************************************)
\* C16: waitForRunCompletion returns only on SUCCEEDED, raises on FAILED,
\* ABORTED and TIMED-OUT, raises the timeout error at the first poll that
\* finds the run unfinished after more than maxWaitTime, never pauses for
\* another poll past that deadline, and, every status request returning,
\* always ends.
C16_PollTerminates ==
    /\ [](poll.pc = "returned" => poll.status = "SUCCEEDED")
    /\ [](poll.status \in {"FAILED", "ABORTED", "TIMED-OUT"}
             => (poll.pc = "threw" /\ poll.error = "run failed"))
    /\ [](poll.error = "timed out"
             => (poll.pc = "threw" /\ poll.elapsed > MaxWaitTime
                   /\ poll.status \in {"READY", "RUNNING"}))
    /\ [](poll.pc = "sleep"
             => (poll.elapsed <= MaxWaitTime /\ poll.status \in {"READY", "RUNNING"}))
    /\ <>(poll.pc \in {"returned", "threw"})

C16_Witness ==
    /\ poll.pc = "threw"
    /\ poll.error = "timed out"
    /\ poll.status = "RUNNING"
    /\ poll.elapsed > MaxWaitTime

(***************************************************************************)
(* Claims about the analysis functions                                     *)
(***************************************************************************)
\* the score of the claim, in tenths: likes*1 + comments*2 + shares*3
\* + impressions*0.1, absent impressions counting 0
ScoreInTenths(m) ==
    10 * m.likes_count + 20 * m.comments_count + 30 * m.shares_count
        + (IF m.has_impressions THEN m.impressions_count ELSE 0)

\* max(1, ceil(0.3 * n)): the least k >= 1 with 10 * k >= 3 * n
TopShare(n) == CHOOSE k \in 1..(n + 1) : 10 * k >= 3 * n /\ (k = 1 \/ 10 * (k - 1) < 3 * n)

Flagged(rows) == {j \in DOMAIN rows : rows[j].is_high_performing}

MoreRecent(q, b) ==
    /\ q.posted_at # <<>>
    /\ (b.posted_at = <<>> \/ q.posted_at[1] > b.posted_at[1])

\* C19: selectCandidatePosts returns at most 10 posts of the pool, none twice;
\* with fewer than 5 high-performing posts it returns all of them first and
\* then the other posts most recent first, posts without a timestamp last,
\* until 10 are reached or the pool is used up: min(10, N) posts.
C19_CandidatesBackfilled ==
    selected.pc = "done"
        => LET posts == selected.posts
               out == selected.candidates
               N == Len(posts)
               hp == {j \in DOMAIN posts : posts[j].is_high_performing}
               h == Cardinality(hp)
           IN /\ Len(out) <= 10
              /\ \A j, k \in DOMAIN out : j # k => out[j].id # out[k].id
              /\ \A j \in DOMAIN out : out[j] = posts[out[j].id]
              /\ h < 5
                    => /\ Len(out) = (IF N < 10 THEN N ELSE 10)
                       /\ {out[j].id : j \in 1..h} = hp
                       /\ \A j \in (h + 1)..Len(out) : ~out[j].is_high_performing
                       /\ \A j, k \in (h + 1)..Len(out) :
                             j < k => ~MoreRecent(out[k], out[j])
                       /\ \A q \in DOMAIN posts, j \in (h + 1)..Len(out) :
                             MoreRecent(posts[q], out[j])
                                => (q \in hp \/ \E k \in DOMAIN out : out[k].id = q)

C19_Witness ==
    /\ selected.pc = "done"
    /\ Len(selected.posts) = 11
    /\ Cardinality({j \in DOMAIN selected.posts :
                       selected.posts[j].is_high_performing}) = 2
    /\ Len(selected.candidates) = 10
    /\ selected.candidates[1].is_high_performing
    /\ selected.candidates[2].is_high_performing
    /\ selected.candidates[3].posted_at # <<>>
    /\ selected.candidates[10].posted_at = <<>>

\* every field of the style JSON has the type StyleJson declares for it
DeclaredTypes(v) ==
    /\ TypeOf(v.tone) = "string"
    /\ v.formality_level = "number"
    /\ v.average_length_words = "number"
    /\ v.emoji_usage \in {"none", "minimal", "moderate", "heavy"}
    /\ \A f \in {"structure_patterns", "hook_patterns", "favorite_topics",
                 "common_phrases_or_cadence_examples"} : v[f] = "string[]"
    /\ TypeOf(v.hashtag_style) = "string"
    /\ v.paragraph_density \in {"compact", "spaced", "varied"}

\* C20: a style-extraction result is accepted and stored only if every field
\* has its declared type and the two enum fields hold one of their words; a
\* result that is not accepted is neither stored nor followed by the ready
\* write of that analysis.
C20_StyleValidated ==
    /\ styleRun.accepted
          => (styleRun.content.kind = "json" /\ DeclaredTypes(styleRun.content.value))
    /\ styleRun.stored => styleRun.accepted
    /\ styleRun.readyWritten => styleRun.stored
    /\ (styleRun.pc = "done" /\ ~styleRun.accepted)
          => (~styleRun.stored /\ onboarding_status = "analysis_in_progress")

(***************************************************************************)
(* Claims about retrieval                                                  *)
(***************************************************************************)
\* the posts of the asking user whose stored embedding has a similarity to
\* the query: the embedding is usable and neither truncated vector is zero
RankedPosts ==
    {i \in 1..Len(retrieval.table) :
        /\ retrieval.table[i].user_id = retrieval.userId
        /\ parseEmbedding(retrieval.table[i].embedding) # NoVector
        /\ LET parts == cosineParts(parseEmbedding(retrieval.table[i].embedding),
                                    retrieval.queryEmbedding)
           IN parts.norm1sq # 0 /\ parts.norm2sq # 0}

SimilarityOfPost(i) ==
    cosineParts(parseEmbedding(retrieval.table[i].embedding), retrieval.queryEmbedding)

\* post a ranks before post b: a higher similarity, or the same similarity
\* and an earlier row
RanksBefore(a, b) ==
    \/ SimilarityGreater(SimilarityOfPost(a), SimilarityOfPost(b))
    \/ /\ ~SimilarityGreater(SimilarityOfPost(b), SimilarityOfPost(a))
       /\ a < b

Returned == {retrieval.result[i] : i \in 1..Len(retrieval.result)}

\* C21: for a non-blank query the call returns at most topK posts, all of
\* them posts of the asking user, in descending order of cosine similarity,
\* and no post of that user left out has a higher similarity than a post
\* returned; the ranking is fixed by the inputs: posts of equal similarity
\* keep the order of their rows, and unless the call returns nothing (a
\* failed read) it returns as many ranked posts as topK allows
C21_TopKBySimilarity ==
    (retrieval.pc = "returned" /\ retrieval.queryText \notin {"", " "}) =>
        LET r == retrieval.result
        IN /\ Len(r) <= retrieval.topK
           /\ \A i \in 1..Len(r) :
                 /\ r[i] \in 1..Len(retrieval.table)
                 /\ retrieval.table[r[i]].user_id = retrieval.userId
           /\ \A i, j \in 1..Len(r) :
                 i < j => /\ ~SimilarityGreater(SimilarityOfPost(r[j]),
                                                SimilarityOfPost(r[i]))
                          /\ RanksBefore(r[i], r[j])
           /\ \A o \in RankedPosts \ Returned : \A i \in 1..Len(r) :
                 /\ ~SimilarityGreater(SimilarityOfPost(o), SimilarityOfPost(r[i]))
                 /\ RanksBefore(r[i], o)
           /\ r # <<>> =>
                 /\ Returned \subseteq RankedPosts
                 /\ Len(r) = IF Cardinality(RankedPosts) < retrieval.topK
                             THEN Cardinality(RankedPosts) ELSE retrieval.topK

\* a call that returned topK posts, not in the order of their rows, and left
\* out a ranked post of the user
C21_Witness ==
    /\ retrieval.pc = "returned"
    /\ Len(retrieval.result) = retrieval.topK
    /\ RankedPosts \ Returned # {}
    /\ \E i, j \in 1..Len(retrieval.result) :
          i < j /\ retrieval.result[i] > retrieval.result[j]

\* C22: a call with an empty or whitespace-only query returns the empty list
\* without having called the embedding service, and a call that read the
\* embeddings of a user who has none returns the empty list and does not
\* throw
C22_DegenerateCasesReturnEmpty ==
    /\ (retrieval.pc # "idle" /\ retrieval.queryText \in {"", " "}) =>
          /\ retrieval.pc = "returned"
          /\ retrieval.result = <<>>
          /\ retrieval.embeddingCalls = 0
    /\ (/\ retrieval.fetched
        /\ \A i \in 1..Len(retrieval.table) :
              retrieval.table[i].user_id # retrieval.userId) =>
          /\ retrieval.pc = "returned"
          /\ retrieval.result = <<>>

\* a whitespace-only query was answered
C22_Witness ==
    /\ retrieval.pc = "returned"
    /\ retrieval.queryText = " "
    /\ retrieval.result = <<>>
    /\ retrieval.embeddingCalls = 0

(***************************************************************************)
(* Claims about long-term memory                                           *)
(***************************************************************************)
\* C23: whatever the interleaving of upsertMemory calls, long_term_memory
\* holds at most one row for a user and a summary type.
C23_OneRowPerType == Len(memory.rows) <= 1

(***************************************************************************)
(* Claims about the chat history                                           *)
(***************************************************************************)
\* the messages of the chat when the handler read it
ChatAsRead == {chatlog.rows[i] : i \in 1..Len(chatlog.chatHistory)}

\* the n messages of C created last
Latest(C, n) == {m \in C : Cardinality({x \in C : x.created_at > m.created_at}) < n}

\* w lists, oldest first, exactly the n messages of C created last
IsTailOf(w, C, n) ==
    /\ \A i, j \in 1..Len(w) : i < j => w[i].created_at < w[j].created_at
    /\ {w[i] : i \in 1..Len(w)} = Latest(C, n)
    /\ Len(w) = Cardinality(Latest(C, n))

\* the user messages of the chat that mention strategy, theme or topic
StrategyMessages ==
    {chatlog.rows[i] : i \in {j \in 1..Len(chatlog.rows) :
        chatlog.rows[j].role = "user" /\ chatlog.rows[j].topic = "strategy"}}

AllMessages == {chatlog.rows[i] : i \in 1..Len(chatlog.rows)}

ReadInOrder ==
    chatlog.pc \in {"read", "classified", "generated", "done"} =>
        IsTailOf(chatlog.chatHistory, ChatAsRead, Len(chatlog.chatHistory))

TurnWindowsAreTails ==
    /\ chatlog.pc \in {"classified", "generated", "done"} =>
          IsTailOf(chatlog.classifierWindow, ChatAsRead, ClassifierWindow)
    /\ chatlog.pc \in {"generated", "done"} =>
          IsTailOf(chatlog.factsWindow, ChatAsRead, FactsWindow)

\* C24 (as stated): getChatMessages returns the messages of the chat in
\* ascending creation order, and the classifier window (last 5), the facts
\* window (last 10) and the memory window (last 10) are exactly the latest
\* messages of the chat.
C24_WindowsAreTrueTails ==
    /\ ReadInOrder
    /\ TurnWindowsAreTails
    /\ (chatlog.pc = "done" /\ chatlog.refreshed) =>
          IsTailOf(chatlog.memoryWindow, AllMessages, FactsWindow)

\* C24 (amended): the history is read in ascending creation order, the
\* classifier window and the facts window of a turn are exactly the 5 and
\* the 10 latest messages of the chat as read, and the window of the memory
\* refresh is the 10 latest of the user messages that mention strategy,
\* theme or topic when there is such a message, and the 10 latest messages
\* of the chat when there is none.
C24_WindowsAreTailsOfTheirList ==
    /\ ReadInOrder
    /\ TurnWindowsAreTails
    /\ (chatlog.pc = "done" /\ chatlog.refreshed) =>
          IsTailOf(chatlog.memoryWindow,
                   IF StrategyMessages # {} THEN StrategyMessages ELSE AllMessages,
                   FactsWindow)

\* a turn over more than ten messages, two of them inserted against the
\* order of their timestamps, whose memory refresh ran over a strategy
\* message
C24_Witness ==
    /\ chatlog.pc = "done"
    /\ chatlog.refreshed
    /\ Len(chatlog.chatHistory) > FactsWindow
    /\ StrategyMessages # {}
    /\ \E i, j \in 1..Len(chatlog.chatHistory) :
          i < j /\ chatlog.rows[i].created_at > chatlog.rows[j].created_at

(***************************************************************************)
(* Claims about text cleaning                                              *)
(***************************************************************************)
\* C25: cleaning is idempotent: cleaning a cleaned text gives the cleaned
\* text back.
C25_CleanIdempotent ==
    cleaned.pc = "done" => cleaned.twice = cleaned.once

\* a text with a tracking URL and a word beside it was cleaned to something
\* shorter that is not empty
C25_Witness ==
    /\ cleaned.pc = "done"
    /\ \E i \in 1..Len(cleaned.rawText) : TrackingUrlAt(cleaned.rawText, i)
    /\ \E i \in 1..Len(cleaned.rawText) : IsSpace(cleaned.rawText[i])
    /\ cleaned.once # <<>>
    /\ cleaned.once # cleaned.rawText

(***************************************************************************)
(* Claims about the FACTS block                                            *)
(***************************************************************************)
\* the lines that open a section of the block
Headers == {"posts header", "profile header", "memory header", "history header"}

\* nothing handed in grounds an answer: no retrieved post with a text, no
\* profile field, no memory entry, no chat message
NoGroundingFact ==
    /\ \A i \in 1..Len(factsBlock.ragPosts) : ~factsBlock.ragPosts[i].text
    /\ factsBlock.profile.fields = {}
    /\ factsBlock.memory = 0
    /\ factsBlock.chatHistory = 0

\* C28: a block built with no grounding fact carries the 'No verified data
\* available' framing, and no block is built of section headers alone.
C28_NoFactsFraming ==
    factsBlock.pc = "built" =>
        /\ NoGroundingFact => factsBlock.block.framing = "no verified data"
        /\ factsBlock.block.framing = "critical rules" =>
              \E i \in 1..Len(factsBlock.block.facts) :
                 factsBlock.block.facts[i] \notin Headers

(***************************************************************************)
(* Claims about onboarding failures, retries and chat access               *)
(***************************************************************************)
\* C26: a run whose background analysis failed has set the onboarding
\* status to error.
C26_AnalysisFailureSetsError ==
    \A i \in DOMAIN runs :
        (runs[i].pc = "done" /\ runs[i].failure = "analysis")
            => \E k \in DOMAIN runs[i].statusWrites : runs[i].statusWrites[k] = "error"

\* C27: the orchestrator runs only for a user whose onboarding status is
\* ready.
C27_TurnsOnlyWhenReady ==
    pc \in {"classify", "retrieve", "profile", "generate", "validate", "rewrite",
            "return"}
        => onboarding_status = "ready"

\* the posts the runs have scraped: post k of the profile behind a URL, for
\* every run of that URL whose posts dataset held at least k items
ScrapedPosts ==
    {p \in Urls \X (1..MaxScraped) :
        \E i \in DOMAIN runs : runs[i].url = p[1] /\ p[2] <= runs[i].postsItems}

\* C29: over any sequence of ingestion runs, linkedin_posts holds at most
\* one row for each scraped post.
C29_PostsCreatedOnce == store.posts <= Cardinality(ScrapedPosts)

\* C30: every call returning, a status of scraping_in_progress or
\* analysis_in_progress is always followed by ready or error.
C30_StatusSettles ==
    [](onboarding_status \in {"scraping_in_progress", "analysis_in_progress"}
          => <>(onboarding_status \in {"ready", "error"}))

(***************************************************************************)
(* Claims about one chat turn                                              *)
(***************************************************************************)
Classified == classification # NoClassification

Answered == pc = "done" /\ result.kind = "message"

\* C2: every turn of an authenticated chat owner with a non-empty message ends
\* with exactly one assistant message, also when a step of the turn fails; it
\* never ends with a bare error.
C2_AlwaysAssistantMessage ==
    (pc = "done" /\ req.authed /\ req.owner /\ req.userMessage # "")
        => (result.kind = "message" /\ saved = 1)

\* C3: a turn validates at most once and rewrites at most once, the rewritten
\* text is returned without a second validation, and the turn makes at most
\* four completion calls.
C3_BoundedValidation ==
    /\ Count("validate") <= 1
    /\ Count("rewrite") <= 1
    /\ CompletionCalls <= 4
    /\ Count("rewrite") = 1 => pc \in {"return", "done"}
    /\ (Answered /\ Count("rewrite") = 1) => calls[Len(calls)] = "rewrite"

C3_Witness ==
    /\ Answered
    /\ calls = <<"classify", "retrieve", "draft", "validate", "rewrite">>
    /\ result.text = RewrittenText

\* C4: an ANALYZE_PROFILE turn always passes its draft to the validator; a
\* STRATEGY or OTHER turn never calls the validator or the rewrite.
C4_ValidatorByIntent ==
    /\ (classification.intent = "ANALYZE_PROFILE" /\ generatedText # NoText)
          => (pc = "validate" \/ Count("validate") = 1)
    /\ classification.intent \in {"STRATEGY", "OTHER"}
          => /\ Count("validate") = 0
             /\ Count("rewrite") = 0
             /\ pc \notin {"validate", "rewrite"}

C4_Witness ==
    /\ Answered
    /\ result.intent = "ANALYZE_PROFILE"
    /\ Count("validate") = 1
    /\ validation.isValid = "true"

\* C5: retrieval runs in every ANALYZE_PROFILE and STRATEGY turn and in no
\* OTHER turn, whatever requires_rag the classifier returned.
C5_RetrievalFixedByIntent ==
    (Classified /\ pc # "retrieve")
        => /\ classification.intent \in {"ANALYZE_PROFILE", "STRATEGY"}
                 => Count("retrieve") = 1
           /\ classification.intent = "OTHER" => Count("retrieve") = 0

\* C6: a WRITE_POST turn that needs clarification makes exactly one generation
\* call, the clarifying question, and stops: no draft, no validator, no rewrite.
C6_ClarificationStops ==
    (classification.intent = "WRITE_POST" /\ classification.needs_clarification)
        => /\ Count("draft") = 0
           /\ Count("validate") = 0
           /\ Count("rewrite") = 0
           /\ pc \notin {"validate", "rewrite"}
           /\ GenerationCalls <= 1
           /\ (pc = "return" \/ Answered)
                 => (GenerationCalls = 1 /\ calls[Len(calls)] = "clarify")

C6_Witness ==
    /\ Answered
    /\ result.intent = "WRITE_POST"
    /\ result.metadata.needs_clarification
    /\ Count("clarify") = 1
    /\ MessageKeywords(req.userMessage)

\* C7: classifyIntent returns only intents of the closed set; an answer naming
\* any other intent makes classification fail, is never coerced to OTHER, and
\* no generation call follows it.
C7_ClosedIntentSet ==
    /\ Classified => classification.intent \in Intents
    /\ (classifierContent.kind = "json" /\ classifierContent.intent \notin Intents)
          => /\ ~Classified
             /\ GenerationCalls = 0
             /\ pc = "done"
             /\ result = RouteError(500)

C7_Witness ==
    /\ classifierContent.kind = "json"
    /\ classifierContent.intent = "CHAT"
    /\ pc = "done"

\* C8: when retrieval throws, the orchestrator goes on with no retrieved posts,
\* still generates, and reports rag_posts_count = 0; the turn is not aborted.
C8_RetrievalFailureContinues ==
    retrievalThrew
        => /\ ragPosts = 0
           /\ GenerationCalls = 0 => pc \in {"profile", "generate"}
           /\ Answered => result.metadata.rag_posts_count = 0

C8_Witness ==
    /\ retrievalThrew
    /\ Answered
    /\ GenerationCalls = 1
    /\ result.metadata.requires_rag

\* C9: an empty or unparseable validator answer does not raise: validation
\* returns isValid = false with one generic marker and the one-shot rewrite
\* is issued.
C9_UnparseableValidation ==
    validatorContent.kind \in {"empty", "garbage", "jsonnull"}
        => /\ validation.isValid = "false"
           /\ Len(validation.unsupportedClaims) = 1
           /\ validation.unsupportedClaims[1] \in {"Unable to validate", "Validation failed"}
           /\ pc = "rewrite" \/ Count("rewrite") = 1

C9_Witness ==
    /\ validatorContent.kind = "garbage"
    /\ Answered
    /\ Count("rewrite") = 1
    /\ result.text = RewrittenText

\* C10: a parsed validator result that lists at least one unsupported claim
\* is followed by exactly one regeneration call whatever its allSupported
\* says, and one that lists none is followed by no regeneration call.
C10_RewriteIffClaims ==
    validatorContent.kind = "json"
        => (Len(validation.unsupportedClaims) >= 1
               <=> (pc = "rewrite" \/ Count("rewrite") = 1))
====
